---- MODULE Spec2Model ----
(***************************************************************************)
(* Model of the sora2_async_api gateway: the relational store              *)
(* (src/core/database.py), the data models (src/core/models.py) and the    *)
(* HTTP routes (src/api/routes.py).  The credential pool / generation      *)
(* orchestrator that the routes call (services/generation_handler and its  *)
(* collaborators) is not part of the sources; where a property needs it,   *)
(* it is modelled from the specification and built on the store's          *)
(* operations.                                                             *)
(***************************************************************************)
EXTENDS Integers, Sequences, FiniteSets, TLC

VARIABLES
    now,            \* CURRENT_TIMESTAMP / datetime.now(), a logical clock
    tasks,          \* table tasks: task_id -> row
    response,       \* the last answer of GET /v1/tasks/{task_id}
    call,           \* the generation request a route is serving
    out,            \* the events its StreamingResponse has sent so far
    http,           \* its JSONResponse, once returned
    tokens,         \* table tokens: id -> row
    token_stats,    \* table token_stats: token_id -> row
    in_flight,      \* the pool's in-memory leases: token id -> media type -> count
    admin_config,   \* table admin_config, row 1
    req,            \* the generations the orchestrator is driving
    served,         \* how many generations have been started
    conn,           \* the store calls in progress, one per connection
    calls,          \* how many store calls have been issued
    performed,      \* the increments that have run: token id -> kind -> date -> count
    chat,           \* the request POST /v1/chat/completions has parsed
    sync_call,      \* the synchronous streaming generation in progress
    disconnected,   \* the tasks whose submitter has closed its connection
    token_seq,      \* the last value of the sequence of tokens.id
    config_rows,    \* the six configuration tables: table -> id -> column values
    seeder,         \* the runs of _ensure_config_rows in progress
    pool,           \* Database.pool: 0 for None, else the id of a pool
    pool_seq,       \* how many pools asyncpg.create_pool has created
    created,        \* the pools created since the last close() returned
    closes,         \* how many close() calls have returned
    closing,        \* the pool a close() call is awaiting the closing of, or 0
    getter          \* the _get_pool calls in progress, one per caller

taskVars == <<tasks, response>>
routeVars == <<call, out, http>>
poolVars == <<tokens, token_stats, in_flight, admin_config, req, served>>
statsVars == <<conn, calls, performed>>
chatVars == <<chat>>
asyncVars == <<sync_call, disconnected>>
adminVars == <<token_seq>>
seedVars == <<config_rows, seeder>>
connVars == <<pool, pool_seq, created, closes, closing, getter>>
apiVars == <<chatVars, asyncVars, adminVars, seedVars, connVars>>
vars == <<now, tasks, response, call, out, http, tokens, token_stats, in_flight,
          admin_config, req, served, conn, calls, performed, chat, sync_call,
          disconnected,
          token_seq, config_rows, seeder, pool, pool_seq, created, closes,
          closing, getter>>

NULL == "NULL"

(***************************************************************************)
(* Tasks: database.py create_task / update_task / get_task and the         *)
(* task-status query of routes.py.                                         *)
(***************************************************************************)
TaskIds == {"t1", "t2"}
TaskModels == {"character-creation", "gpt-image"}
TaskStatuses == {"processing", "completed", "failed"}
ProgressValues == {0, 50, 100}
ErrorMessages == {NULL, "boom"}

\* The texts the result_urls column can hold: SQL NULL, a JSON array of
\* strings, a JSON object (a character identity), and text that is not JSON.
ResultTexts == {NULL, "[\"u\"]", "{\"id\":\"c\"}", "u"}

\* Task(task_id, token_id, model, prompt) with the defaults of the class.
Task(task_id, model) ==
    [task_id |-> task_id, token_id |-> 1, model |-> model, prompt |-> "a cat",
     status |-> "processing", progress |-> 0,
     result_urls |-> NULL, error_message |-> NULL, created_at |-> now,
     completed_at |-> 0]

\* A faulty create_task: the row is not written.
create_task_dropped(tbl, task) == tbl

\* INSERT INTO tasks (task_id, token_id, model, prompt, status, progress)
create_task(tbl, task) ==
    IF task.task_id \in DOMAIN tbl THEN tbl
    ELSE tbl @@ (task.task_id :> task)

\* A faulty update_task: the row is deleted instead of written.
update_task_deleting(tbl, task_id, status, progress, result_urls, error_message) ==
    [t \in DOMAIN tbl \ {task_id} |-> tbl[t]]

\* A faulty update_task: completed_at is written for "completed" only.
update_task_completed_only(tbl, task_id, status, progress, result_urls, error_message) ==
    LET completed_at == IF status = "completed" THEN now ELSE 0
    IN  IF task_id \notin DOMAIN tbl THEN tbl
        ELSE [tbl EXCEPT ![task_id] =
                [@ EXCEPT !.status = status, !.progress = progress,
                          !.result_urls = result_urls,
                          !.error_message = error_message,
                          !.completed_at = completed_at]]

\* A faulty update_task: an omitted result_urls or error_message keeps the
\* stored value, as SET col = COALESCE($n, col) would.
update_task_coalesce(tbl, task_id, status, progress, result_urls, error_message) ==
    LET completed_at == IF status \in {"completed", "failed"} THEN now ELSE 0
    IN  IF task_id \notin DOMAIN tbl THEN tbl
        ELSE [tbl EXCEPT ![task_id] =
                [@ EXCEPT !.status = status, !.progress = progress,
                          !.result_urls =
                              IF result_urls = NULL THEN @ ELSE result_urls,
                          !.error_message =
                              IF error_message = NULL THEN @ ELSE error_message,
                          !.completed_at = completed_at]]

\* UPDATE tasks SET status, progress, result_urls, error_message, completed_at
\* WHERE task_id = $6: every column is overwritten, unknown ids match no row.
update_task(tbl, task_id, status, progress, result_urls, error_message) ==
    LET completed_at == IF status \in {"completed", "failed"} THEN now ELSE 0
    IN  IF task_id \notin DOMAIN tbl THEN tbl
        ELSE [tbl EXCEPT ![task_id] =
                [@ EXCEPT !.status = status, !.progress = progress,
                          !.result_urls = result_urls,
                          !.error_message = error_message,
                          !.completed_at = completed_at]]

\* SELECT * FROM tasks WHERE task_id = $1
get_task(tbl, task_id) ==
    IF task_id \in DOMAIN tbl THEN {tbl[task_id]} ELSE {}

\* json.loads on the texts of ResultTexts: the Python type of the parsed
\* value, "error" when the text is not JSON.
JsonLoads(text) ==
    CASE text = "[\"u\"]" -> "list"
      [] text = "{\"id\":\"c\"}" -> "dict"
      [] OTHER -> "error"

\* routes.py get_task_status, lines 106-123: the value handed to
\* TaskStatusResponse.result_urls, as its Python shape and element type.
ResultValue(task) ==
    IF task.result_urls = NULL THEN [shape |-> "none", elems |-> "none"]
    ELSE LET parsed == JsonLoads(task.result_urls)
         IN  IF parsed = "error" THEN [shape |-> "list", elems |-> "str"]
             ELSE IF task.model = "character-creation"
                  THEN IF parsed = "dict" THEN [shape |-> "dict", elems |-> "none"]
                       ELSE [shape |-> "list", elems |-> "str"]
                  ELSE IF parsed = "list" THEN [shape |-> "list", elems |-> "str"]
                       ELSE [shape |-> "list", elems |-> "dict"]

\* models.py TaskStatusResponse: result_urls: Optional[List[str]].
TaskStatusResponse(value) ==
    \/ value.shape = "none"
    \/ value.shape = "list" /\ value.elems = "str"

\* routes.py get_task_status: 404 for an unknown id; a validation error of the
\* response model is caught by "except Exception" and answered with 500.
get_task_status(tbl, task_id) ==
    LET found == get_task(tbl, task_id)
    IN  IF found = {}
        THEN [task_id |-> task_id, code |-> 404, shape |-> "none",
              model |-> NULL, status |-> NULL, stored |-> NULL]
        ELSE LET task == CHOOSE t \in found : TRUE
                 value == ResultValue(task)
             IN  IF TaskStatusResponse(value)
                 THEN [task_id |-> task_id, code |-> 200, shape |-> value.shape,
                       model |-> task.model, status |-> task.status,
                       stored |-> task.result_urls]
                 ELSE [task_id |-> task_id, code |-> 500, shape |-> "none",
                       model |-> task.model, status |-> task.status,
                       stored |-> task.result_urls]

NoResponse ==
    [task_id |-> NULL, code |-> 0, shape |-> "none", model |-> NULL,
     status |-> NULL, stored |-> NULL]

TaskStart ==
    /\ tasks = <<>>
    /\ response = NoResponse

\* A store operation starts after the answer of an earlier status query has
\* been returned to its caller: response holds the answer of a query only
\* while the table is as the query read it.
CreateTask(t, m) ==
    /\ t \notin DOMAIN tasks
    /\ tasks' = create_task(tasks, Task(t, m))
    /\ response' = NoResponse
    /\ UNCHANGED <<now, apiVars, routeVars, poolVars, statsVars>>

UpdateTask(t, s, p, r, e) ==
    /\ tasks' = update_task(tasks, t, s, p, r, e)
    /\ response' = NoResponse
    /\ UNCHANGED <<now, apiVars, routeVars, poolVars, statsVars>>

GetTaskStatus(t) ==
    /\ response' = get_task_status(tasks, t)
    /\ UNCHANGED <<now, apiVars, tasks, routeVars, poolVars, statsVars>>

TaskNext ==
    \/ \E t \in TaskIds, m \in TaskModels : CreateTask(t, m)
    \/ \E t \in TaskIds, s \in TaskStatuses, p \in ProgressValues,
          r \in ResultTexts, e \in ErrorMessages : UpdateTask(t, s, p, r, e)
    \/ \E t \in TaskIds : GetTaskStatus(t)

(***************************************************************************)
(* Routes: the generation endpoints of routes.py.  A route hands the       *)
(* request to the generation handler, an asynchronous generator that       *)
(* yields chunks and then returns or raises.                               *)
(***************************************************************************)
MaxChunks == 2

ChatEndpoint == "/v1/chat/completions"
CharacterEndpoints == {"/v1/characters/create", "/v1/characters/generate"}
Endpoints ==
    {ChatEndpoint, "/v1/images/generate", "/v1/images/transform",
     "/v1/videos/generate", "/v1/videos/transform", "/v1/videos/remix",
     "/v1/videos/storyboard"} \cup CharacterEndpoints

ABSENT == "ABSENT"

\* The structured error of a policy/region rejection, as the text of the
\* exception that carries it.
StructuredText ==
    "{\"error\":{\"message\":\"blocked\",\"type\":\"request_forbidden\",\"param\":null,\"code\":\"unsupported_country_code\"}}"

\* str(e) of the exceptions a handler raises: plain text, the structured
\* error, and JSON that is no structured error (an object without "error",
\* a value that is no object).
ExceptionTexts == {"upstream timeout", StructuredText, "{\"detail\":\"x\"}", "[1]"}

\* CharacterCreateRequest and CharacterGenerateRequest declare no field
\* timestamps: reading request.timestamps raises AttributeError.
AttributeErrorText == "object has no attribute 'timestamps'"

\* A JSON document with a top-level "error" member: top is the JSON type of
\* that member, the other fields are the members of the error object.
NoDoc ==
    [top |-> "none", message |-> ABSENT, type |-> ABSENT, param |-> ABSENT,
     code |-> ABSENT]

\* json.loads(str(e)) followed by isinstance(error_data, dict) and
\* "error" in error_data: the document when all three succeed, NoDoc otherwise.
StructuredError(text) ==
    IF text = StructuredText
    THEN [top |-> "object", message |-> "blocked", type |-> "request_forbidden",
          param |-> "null", code |-> "unsupported_country_code"]
    ELSE NoDoc

\* {"error": {"message": str(e), "type": "server_error", "param": None, "code": None}}
GenericError(text) ==
    [top |-> "object", message |-> text, type |-> "server_error",
     param |-> "null", code |-> "null"]

\* {"error": {"message": ..., "type": "invalid_request_error", "param": "stream", "code": None}}
StreamRequiredError ==
    [top |-> "object", message |-> "requires streaming mode",
     type |-> "invalid_request_error", param |-> "stream", code |-> "null"]

\* The error document of generate()'s except clause: create_chat_completion
\* forwards a structured error, every other endpoint wraps str(e).
error_response(endpoint, text) ==
    IF endpoint = ChatEndpoint /\ StructuredError(text) # NoDoc
    THEN StructuredError(text)
    ELSE GenericError(text)

ChunkItem(n) == [kind |-> "chunk", n |-> n, doc |-> NoDoc]
ErrorItem(doc) == [kind |-> "error", n |-> 0, doc |-> doc]
DoneItem == [kind |-> "done", n |-> 0, doc |-> NoDoc]

\* A faulty generate(): the error event is sent but the terminator is not.
generate_except_no_done(endpoint, text) ==
    <<ErrorItem(error_response(endpoint, text))>>

\* generate(): "except Exception as e" yields the error chunk, then
\* 'data: [DONE]'.
generate_except(endpoint, text) ==
    <<ErrorItem(error_response(endpoint, text)), DoneItem>>

\* The outer "except Exception" of a route: JSONResponse(status_code=500, ...).
route_except(text) ==
    [status |-> 500, kind |-> "error", n |-> 0, doc |-> GenericError(text),
     task_id |-> NULL]

\* "except HTTPException: raise": FastAPI answers {"detail": ...} with the
\* status of the exception.
http_exception(status) ==
    [status |-> status, kind |-> "detail", n |-> 0, doc |-> NoDoc,
     task_id |-> NULL]

\* The answer to an async_mode request: {"task_id": ..., "task_type": ...,
\* "status": "processing", "message": ...}.
task_submitted(task_id) ==
    [status |-> 200, kind |-> "task", n |-> 0, doc |-> NoDoc,
     task_id |-> task_id]

\* The 400 of the character endpoints for stream = false.
stream_required ==
    [status |-> 400, kind |-> "error", n |-> 0, doc |-> StreamRequiredError,
     task_id |-> NULL]

\* The non-streaming end of a route: the last chunk assigned to result, or
\* the 500 envelope when result is None.
json_response(result) ==
    IF result # 0
    THEN [status |-> 200, kind |-> "result", n |-> result, doc |-> NoDoc,
          task_id |-> NULL]
    ELSE [status |-> 500, kind |-> "error", n |-> 0,
          doc |-> GenericError("Generation failed"), task_id |-> NULL]

NoHttp == [status |-> 0, kind |-> "none", n |-> 0, doc |-> NoDoc, task_id |-> NULL]

\* response is what the route returned: "json" for a JSONResponse or an
\* HTTPException, "stream" for a StreamingResponse; handler_calls counts the
\* calls of the generation handler (handle_generation, submit_*_task,
\* _handle_character_*).
NoCall ==
    [endpoint |-> NULL, stream |-> FALSE, async_mode |-> FALSE, validation |-> "valid",
     pc |-> "idle", response |-> "none", handler_calls |-> 0, yielded |-> 0,
     result |-> 0, failure |-> NULL]

\* What the validation of the route finds: nothing, request.model not in
\* MODEL_CONFIG, a model of the other media type, or an empty messages list.
Validations == {"valid", "unknown_model", "wrong_media_type", "empty_messages"}

\* The request models with a field async_mode, and the routes that look at
\* request.model and at the media type of the model.
HasAsyncMode(endpoint) == endpoint \notin {ChatEndpoint, "/v1/characters/generate"}
ChecksModel(endpoint) == endpoint # "/v1/characters/create"
ChecksMediaType(endpoint) == endpoint \notin {ChatEndpoint, "/v1/characters/create"}

\* The validation failures a request of the endpoint can have.
ValidationsOf(endpoint) ==
    {"valid"}
    \cup (IF ChecksModel(endpoint) THEN {"unknown_model"} ELSE {})
    \cup (IF ChecksMediaType(endpoint) THEN {"wrong_media_type"} ELSE {})
    \cup (IF endpoint = ChatEndpoint THEN {"empty_messages"} ELSE {})

\* The same tests with the async_mode test moved before the validation.
route_branch_async_first(endpoint, stream, async_mode, validation) ==
    CASE async_mode /\ endpoint = "/v1/characters/create" -> "attribute_error"
      [] async_mode /\ endpoint # "/v1/characters/create" -> "submit"
      [] ~async_mode /\ validation # "valid" -> "invalid"
      [] ~async_mode /\ validation = "valid"
           /\ endpoint \in CharacterEndpoints /\ ~stream -> "stream_required"
      [] OTHER -> "handler"

\* The tests of a route in their order in the code: validation, async_mode,
\* stream.  The result names the branch the request takes.
route_branch(endpoint, stream, async_mode, validation) ==
    CASE validation # "valid" -> "invalid"
      [] validation = "valid" /\ async_mode
           /\ endpoint = "/v1/characters/create" -> "attribute_error"
      [] validation = "valid" /\ async_mode
           /\ endpoint # "/v1/characters/create" -> "submit"
      [] validation = "valid" /\ ~async_mode
           /\ endpoint \in CharacterEndpoints /\ ~stream -> "stream_required"
      [] OTHER -> "handler"

RouteStart ==
    /\ call = NoCall
    /\ out = <<>>
    /\ http = NoHttp

\* A request arrives and the route runs up to its first call of the
\* handler: the model is validated, an async_mode request is submitted as a
\* task, the character endpoints refuse stream = false, and every other
\* request reaches handle_generation.  submit_generation_task creates the
\* task row before it returns; create_character reads request.timestamps
\* for submit_character_creation_task, which raises AttributeError.
Receive(endpoint, stream, async_mode, validation) ==
    /\ call.pc \in {"idle", "closed"}
    /\ async_mode => HasAsyncMode(endpoint)
    /\ validation \in ValidationsOf(endpoint)
    /\ LET arrived == [NoCall EXCEPT !.endpoint = endpoint, !.stream = stream,
                                     !.async_mode = async_mode,
                                     !.validation = validation]
           json == [arrived EXCEPT !.pc = "closed", !.response = "json"]
           branch == route_branch(endpoint, stream, async_mode, validation)
       IN  CASE branch = "invalid" ->
                  /\ call' = json
                  /\ http' = IF endpoint = ChatEndpoint
                             THEN route_except("400: Invalid request")
                             ELSE http_exception(400)
                  /\ out' = <<>>
                  /\ UNCHANGED tasks
             [] branch = "attribute_error" ->
                  /\ call' = [arrived EXCEPT
                                 !.pc = "closed", !.failure = AttributeErrorText,
                                 !.response = IF stream THEN "stream" ELSE "json"]
                  /\ http' = IF stream THEN NoHttp
                             ELSE route_except(AttributeErrorText)
                  /\ out' = IF stream
                            THEN generate_except(endpoint, AttributeErrorText)
                            ELSE <<>>
                  /\ UNCHANGED tasks
             [] branch = "submit" ->
                  \E t \in TaskIds \ DOMAIN tasks :
                      /\ tasks' = create_task(tasks, Task(t, "gpt-image"))
                      /\ call' = [json EXCEPT !.handler_calls = 1]
                      /\ http' = task_submitted(t)
                      /\ out' = <<>>
             [] branch = "stream_required" ->
                  /\ call' = json
                  /\ http' = stream_required
                  /\ out' = <<>>
                  /\ UNCHANGED tasks
             [] branch = "handler" ->
                  /\ call' = [arrived EXCEPT
                                 !.pc = "running",
                                 !.response = IF stream THEN "stream" ELSE "none"]
                  /\ http' = NoHttp
                  /\ out' = <<>>
                  /\ UNCHANGED tasks
    /\ UNCHANGED <<now, apiVars, response, poolVars, statsVars>>

\* The handler yields its next chunk: "yield chunk" when streaming,
\* "result = chunk" otherwise.
HandlerYield ==
    /\ call.pc = "running"
    /\ call.endpoint \notin CharacterEndpoints
    /\ call.yielded < MaxChunks
    /\ call' = [call EXCEPT !.yielded = @ + 1, !.handler_calls = 1,
                            !.result = IF call.stream THEN @ ELSE call.yielded + 1]
    /\ out' = IF call.stream THEN Append(out, ChunkItem(call.yielded + 1)) ELSE out
    /\ UNCHANGED <<now, apiVars, taskVars, poolVars, statsVars, http>>

\* The handler returns.  A streaming handler ends its own sequence with the
\* terminator, which the route passes on like every chunk.
HandlerReturn ==
    /\ call.pc = "running"
    /\ call.endpoint \notin CharacterEndpoints
    /\ call' = [call EXCEPT !.pc = "closed", !.handler_calls = 1,
                            !.response = IF call.stream THEN "stream" ELSE "json"]
    /\ IF call.stream
       THEN out' = Append(out, DoneItem) /\ UNCHANGED http
       ELSE http' = json_response(call.result) /\ UNCHANGED out
    /\ UNCHANGED <<now, apiVars, taskVars, poolVars, statsVars>>

\* The handler raises an exception after the chunks it has yielded.
HandlerRaise(text) ==
    /\ call.pc = "running"
    /\ call.endpoint \notin CharacterEndpoints
    /\ call' = [call EXCEPT !.pc = "closed", !.failure = text,
                            !.handler_calls = 1,
                            !.response = IF call.stream THEN "stream" ELSE "json"]
    /\ IF call.stream
       THEN out' = out \o generate_except(call.endpoint, text) /\ UNCHANGED http
       ELSE http' = route_except(text) /\ UNCHANGED out
    /\ UNCHANGED <<now, apiVars, taskVars, poolVars, statsVars>>

\* create_character / generate_character_video, streaming: the call of the
\* handler evaluates request.timestamps inside generate()'s try block.
CharacterStream ==
    /\ call.pc = "running"
    /\ call.endpoint \in CharacterEndpoints
    /\ call' = [call EXCEPT !.pc = "closed", !.failure = AttributeErrorText]
    /\ out' = out \o generate_except(call.endpoint, AttributeErrorText)
    /\ UNCHANGED <<now, apiVars, taskVars, poolVars, statsVars, http>>

RouteNext ==
    \/ \E ep \in Endpoints, st \in BOOLEAN, am \in BOOLEAN, va \in Validations :
          Receive(ep, st, am, va)
    \/ HandlerYield
    \/ HandlerReturn
    \/ \E text \in ExceptionTexts : HandlerRaise(text)
    \/ CharacterStream

(***************************************************************************)
(* POST /v1/chat/completions: the request is parsed and validated before   *)
(* the generation handler is called.  A text is a sequence of characters,  *)
(* the empty sequence being the empty string.                              *)
(***************************************************************************)
HexChars == {"0", "1", "2", "3", "4", "5", "6", "7", "8", "9",
             "a", "b", "c", "d", "e", "f"}

\* {32} in the pattern r's_[a-f0-9]{32}'
RemixHexLen == 32

Rep(ch, n) == [i \in 1..n |-> ch]

\* The pieces from which the prompts are put together: the share link
\* prefix, two identifiers, an identifier one character short, one with an
\* upper-case digit in its last place, and plain words.
SharePrefix ==
    <<"h", "t", "t", "p", "s", ":", "/", "/", "s", "o", "r", "a", ".",
      "c", "h", "a", "t", "g", "p", "t", ".", "c", "o", "m", "/", "p", "/">>
RemixIdA ==
    <<"s", "_", "6", "8", "e", "3", "a", "0", "6", "d", "c", "d", "8", "8",
      "8", "1", "9", "1", "b", "1", "5", "0", "9", "7", "1", "d", "a", "1",
      "5", "2", "c", "1", "f", "5">>
RemixIdB == <<"s", "_">> \o Rep("0", RemixHexLen)
ShortId == <<"s", "_">> \o Rep("a", RemixHexLen - 1)
UpperId == <<"s", "_">> \o Rep("a", RemixHexLen - 1) \o <<"F">>
Words == <<"a", " ", "c", "a", "t", "s", "_", " ">>
Pieces == {SharePrefix, RemixIdA, RemixIdB, ShortId, UpperId, Words}

MaxPieces == 3
MaxItems == 2

RECURSIVE TextsOf(_)
TextsOf(n) ==
    IF n = 0 THEN {<<>>}
    ELSE TextsOf(n - 1) \cup {t \o p : t \in TextsOf(n - 1), p \in Pieces}

\* A media string is the sequence of its parts: the prefix the routes test
\* with startswith, the marker they split at, and what lies between and
\* after them.
DataImage == <<"data:image", "/png;", "base64,", "QUJD">>
DataImageNoMarker == <<"data:image", "/png,", "QUJD">>
DataImageTwoMarkers == <<"data:image", "/png;", "base64,", "QUJD", "base64,", "RUZH">>
HttpsImage == <<"https://", "example.com/a.png">>
DataVideo == <<"data:video", "/mp4;", "base64,", "AAAA">>
DataApplication == <<"data:application", "/octet-stream;", "base64,", "AAAA">>
HttpVideo == <<"http://", "example.com/a.mp4">>
RawBase64 == <<"QUJD">>
ImageUrls == {DataImage, DataImageNoMarker, DataImageTwoMarkers, HttpsImage}
VideoUrls == {DataVideo, DataApplication, HttpVideo}

\* ChatMessage.content: a string, or a list of parts of type text,
\* image_url or video_url; NoMessages is the request whose messages list is
\* empty.
StrContent(text) == [kind |-> "str", text |-> text, items |-> <<>>]
ListContent(items) == [kind |-> "list", text |-> <<>>, items |-> items]
NoMessages == [kind |-> "none", text |-> <<>>, items |-> <<>>]
TextItem(text) == [type |-> "text", text |-> text, url |-> <<>>]
ImageItem(url) == [type |-> "image_url", text |-> <<>>, url |-> url]
VideoItem(url) == [type |-> "video_url", text |-> <<>>, url |-> url]
Items ==
    {TextItem(t) : t \in TextsOf(1)} \cup {ImageItem(u) : u \in ImageUrls}
                                     \cup {VideoItem(u) : u \in VideoUrls}

RECURSIVE ItemLists(_)
ItemLists(n) ==
    IF n = 0 THEN {<<>>}
    ELSE ItemLists(n - 1) \cup {Append(l, it) : l \in ItemLists(n - 1), it \in Items}

Contents ==
    {NoMessages} \cup {StrContent(t) : t \in TextsOf(MaxPieces)}
                 \cup {ListContent(l) : l \in ItemLists(MaxItems)}

\* MODEL_CONFIG of services/generation_handler: the media type of each model.
MODEL_CONFIG == [m \in {"gpt-image", "sora2-landscape-10s"} |->
                    IF m = "gpt-image" THEN "image" ELSE "video"]
ModelNames == DOMAIN MODEL_CONFIG \cup {"no-such-model"}

\* Python's "not x" on an optional string.
Falsy(x) == x = NULL \/ x = <<>>

\* The pattern matches at position i of text.
MatchAt(text, i) ==
    /\ i + RemixHexLen + 1 <= Len(text)
    /\ text[i] = "s" /\ text[i + 1] = "_"
    /\ \A j \in 2..(RemixHexLen + 1) : text[i + j] \in HexChars

\* re.search: the match at the leftmost position that has one.
RECURSIVE re_search(_, _)
re_search(text, i) ==
    IF i + RemixHexLen + 1 > Len(text) THEN <<>>
    ELSE IF MatchAt(text, i) THEN SubSeq(text, i, i + RemixHexLen + 1)
    ELSE re_search(text, i + 1)

\* A faulty _extract_remix_id: re.match, which looks at the start only.
extract_remix_id_at_start(text) ==
    IF Falsy(text) THEN <<>>
    ELSE IF MatchAt(text, 1) THEN SubSeq(text, 1, RemixHexLen + 2) ELSE <<>>

\* _extract_remix_id
extract_remix_id(text) ==
    IF Falsy(text) THEN <<>> ELSE re_search(text, 1)

\* str.startswith(prefix) and "marker in s" on a media string.
startswith(s, prefix) == Len(s) > 0 /\ s[1] = prefix
contains(s, marker) == \E i \in 1..Len(s) : s[i] = marker

\* s.split(marker, 1)[1]: what follows the first occurrence of the marker.
split_1(s, marker) ==
    LET i == CHOOSE k \in 1..Len(s) :
                 s[k] = marker /\ \A j \in 1..(k - 1) : s[j] # marker
    IN  SubSeq(s, i + 1, Len(s))

\* The image_url part of a chat message: a data:image URI gives its
\* payload, any other url leaves image_data as it was.
image_url_data(url, image_data) ==
    IF startswith(url, "data:image")
    THEN IF contains(url, "base64,") THEN split_1(url, "base64,") ELSE url
    ELSE image_data

\* The video_url part of a chat message.
video_url_data(url, video_data) ==
    IF startswith(url, "data:video") \/ startswith(url, "data:application")
    THEN IF contains(url, "base64,") THEN split_1(url, "base64,") ELSE url
    ELSE url

\* transform_image and transform_video: request.image.
transform_image_data(image) ==
    IF startswith(image, "data:image") /\ contains(image, "base64,")
    THEN split_1(image, "base64,") ELSE image

\* create_character and generate_character_video: request.video.
character_video_data(video) ==
    IF startswith(video, "http://") \/ startswith(video, "https://") THEN video
    ELSE IF (startswith(video, "data:video") \/ startswith(video, "data:application"))
            /\ contains(video, "base64,")
         THEN split_1(video, "base64,") ELSE video

\* The loop over the parts of a list content: every text part becomes the
\* prompt, and is searched while no identifier is known; an image_url or
\* video_url part sets the image or the video.
RECURSIVE parse_items(_, _, _, _, _, _)
parse_items(items, i, prompt, remix_target_id, image_data, video_data) ==
    IF i > Len(items)
    THEN [prompt |-> prompt, remix_target_id |-> remix_target_id,
          image |-> image_data, video |-> video_data]
    ELSE CASE items[i].type = "text" ->
                parse_items(items, i + 1, items[i].text,
                            IF Falsy(remix_target_id)
                            THEN extract_remix_id(items[i].text)
                            ELSE remix_target_id,
                            image_data, video_data)
           [] items[i].type = "image_url" ->
                parse_items(items, i + 1, prompt, remix_target_id,
                            image_url_data(items[i].url, image_data), video_data)
           [] items[i].type = "video_url" ->
                parse_items(items, i + 1, prompt, remix_target_id,
                            image_data, video_url_data(items[i].url, video_data))

\* create_chat_completion: prompt, remix_target_id, image and video from
\* the request and its last message.
parse_content(content, remix_target_id, image, video) ==
    IF content.kind = "str"
    THEN [prompt |-> content.text,
          remix_target_id |-> IF Falsy(remix_target_id)
                              THEN extract_remix_id(content.text)
                              ELSE remix_target_id,
          image |-> image, video |-> video]
    ELSE parse_items(content.items, 1, <<>>, remix_target_id, image, video)

ChatCompletionRequest(model, content, remix_target_id, stream, image, video) ==
    [model |-> model, content |-> content, remix_target_id |-> remix_target_id,
     stream |-> stream, image |-> image, video |-> video]

NoChat ==
    [pc |-> "idle", request |-> NULL, status |-> 0, detail |-> NULL,
     prompt |-> <<>>, remix_target_id |-> NULL, image |-> NULL, video |-> NULL]

\* No synchronous streaming generation: started counts the ones there
\* have been.
NoSync ==
    [pc |-> "idle", token |-> 0, media |-> "image", polls |-> 0,
     connected |-> FALSE, started |-> 0]

\* --- The configuration rows ---------------------------------------------

\* The tables _ensure_config_rows visits, in its order.
ConfigTables ==
    <<"admin_config", "proxy_config", "watermark_free_config", "cache_config",
      "generation_config", "token_refresh_config">>

\* _ensure_config_rows: error_ban_threshold is 3 unless setting.toml gives
\* another value.
DefaultBanThreshold == 3
DefaultCacheTimeout == 600
DefaultImageTimeout == 300
DefaultVideoTimeout == 3000

\* The values _ensure_config_rows inserts when it is given no config_dict:
\* the numeric and boolean columns of each table.
Defaults(table) ==
    CASE table = "admin_config" -> <<DefaultBanThreshold>>
      [] table = "cache_config" -> <<DefaultCacheTimeout>>
      [] table = "generation_config" -> <<DefaultImageTimeout, DefaultVideoTimeout>>
      [] OTHER -> <<FALSE>>

\* A setting.toml whose values all differ from the built-in defaults.
TomlDict ==
    [table \in {ConfigTables[i] : i \in DOMAIN ConfigTables} |->
        CASE table = "admin_config" -> <<DefaultBanThreshold + 2>>
          [] table = "cache_config" -> <<DefaultCacheTimeout * 2>>
          [] table = "generation_config" ->
               <<DefaultImageTimeout * 2, DefaultVideoTimeout * 2>>
          [] OTHER -> <<TRUE>>]

\* config_dict = None
NoConfigDict == << >>

\* The values of the row _ensure_config_rows builds for a table: the
\* defaults, replaced by the values of config_dict "if config_dict:".
row_values(table, config_dict) ==
    IF config_dict = NoConfigDict THEN Defaults(table) ELSE config_dict[table]

\* A faulty insert: ON CONFLICT (id) DO UPDATE, the stored row is replaced.
insert_config_row_do_update(rows, values) == 1 :> values

\* INSERT INTO <table> (id, ...) VALUES (1, ...) ON CONFLICT (id) DO NOTHING
insert_config_row(rows, values) ==
    IF 1 \in DOMAIN rows THEN rows ELSE 1 :> values

SeedEntries == {"init_db", "check_and_migrate_db", "init_config_from_toml"}

\* The config_dict each entry point hands to _ensure_config_rows.
passed_config_dict(entry, config_dict, is_first_startup) ==
    CASE entry = "init_db" -> NoConfigDict
      [] entry = "check_and_migrate_db" -> config_dict
      [] OTHER -> IF is_first_startup THEN config_dict ELSE NoConfigDict

Seeders == {"s1", "s2"}

NoSeeder ==
    [pc |-> "idle", entry |-> "none", is_first_startup |-> TRUE,
     config_dict |-> NoConfigDict, i |-> 0]

SeedStart ==
    /\ config_rows = [i \in DOMAIN ConfigTables |-> << >>]
    /\ seeder = [s \in Seeders |-> NoSeeder]

\* After the statement on table i: the next table, or the end of the run.
next_table(rec) ==
    IF rec.i = Len(ConfigTables) THEN [rec EXCEPT !.pc = "done"]
    ELSE [rec EXCEPT !.pc = "count", !.i = @ + 1]

\* An entry point is called and reaches _ensure_config_rows.
EnsureStart(s, entry, config_dict, is_first_startup) ==
    /\ seeder[s].pc \in {"idle", "done"}
    /\ entry = "init_db" => (config_dict = NoConfigDict /\ is_first_startup)
    /\ entry = "check_and_migrate_db" => is_first_startup
    /\ seeder' = [seeder EXCEPT ![s] =
                     [pc |-> "count", entry |-> entry,
                      is_first_startup |-> is_first_startup,
                      config_dict |->
                          passed_config_dict(entry, config_dict, is_first_startup),
                      i |-> 1]]
    /\ UNCHANGED <<now, chatVars, asyncVars, adminVars, connVars, config_rows,
                   taskVars, routeVars, poolVars, statsVars>>

\* count = SELECT COUNT(*) FROM <table>; if count == 0 the INSERT follows.
EnsureCount(s) ==
    /\ seeder[s].pc = "count"
    /\ seeder' = [seeder EXCEPT ![s] =
                     IF Cardinality(DOMAIN config_rows[seeder[s].i]) = 0
                     THEN [@ EXCEPT !.pc = "insert"]
                     ELSE next_table(@)]
    /\ UNCHANGED <<now, chatVars, asyncVars, adminVars, connVars, config_rows,
                   taskVars, routeVars, poolVars, statsVars>>

\* The INSERT of the row of table i.
EnsureInsert(s) ==
    /\ seeder[s].pc = "insert"
    /\ LET i == seeder[s].i
       IN  config_rows' =
             [config_rows EXCEPT ![i] =
                 insert_config_row(@, row_values(ConfigTables[i],
                                                 seeder[s].config_dict))]
    /\ seeder' = [seeder EXCEPT ![s] = next_table(@)]
    /\ UNCHANGED <<now, chatVars, asyncVars, adminVars, connVars,
                   taskVars, routeVars, poolVars, statsVars>>

SeedNext ==
    \/ \E s \in Seeders, entry \in SeedEntries,
          config_dict \in {NoConfigDict, TomlDict}, is_first_startup \in BOOLEAN :
          EnsureStart(s, entry, config_dict, is_first_startup)
    \/ \E s \in Seeders : EnsureCount(s)
    \/ \E s \in Seeders : EnsureInsert(s)

\* --- The connection pool ------------------------------------------------

Callers == {"a1", "a2"}
MaxCloses == 2

NoGetter == [pc |-> "idle", result |-> 0, epoch |-> 0]

ConnStart ==
    /\ pool = 0
    /\ pool_seq = 0
    /\ created = 0
    /\ closes = 0
    /\ closing = 0
    /\ getter = [a \in Callers |-> NoGetter]

\* _get_pool up to its await: "if self.pool is None" is evaluated, and the
\* caller either returns self.pool or awaits asyncpg.create_pool.
GetPoolCheck(a) ==
    /\ getter[a].pc = "idle"
    /\ getter' = [getter EXCEPT ![a] =
                     IF pool = 0
                     THEN [@ EXCEPT !.pc = "creating"]
                     ELSE [pc |-> "returned", result |-> pool, epoch |-> closes]]
    /\ UNCHANGED <<now, chatVars, asyncVars, adminVars, seedVars, pool, pool_seq,
                   created, closes, closing, taskVars, routeVars, poolVars,
                   statsVars>>

\* create_pool returns: the new pool is assigned to self.pool and returned.
GetPoolCreated(a) ==
    /\ getter[a].pc = "creating"
    /\ pool_seq' = pool_seq + 1
    /\ pool' = pool_seq + 1
    /\ created' = created + 1
    /\ getter' = [getter EXCEPT ![a] =
                     [pc |-> "returned", result |-> pool_seq + 1, epoch |-> closes]]
    /\ UNCHANGED <<now, chatVars, asyncVars, adminVars, seedVars, closes, closing,
                   taskVars, routeVars, poolVars, statsVars>>

\* The caller is done with the pool it was given.
GetPoolDone(a) ==
    /\ getter[a].pc = "returned"
    /\ getter' = [getter EXCEPT ![a] = NoGetter]
    /\ UNCHANGED <<now, chatVars, asyncVars, adminVars, seedVars, pool, pool_seq,
                   created, closes, closing, taskVars, routeVars, poolVars,
                   statsVars>>

\* close() up to its await: "if self.pool" holds and self.pool.close() runs.
CloseStart ==
    /\ closes < MaxCloses
    /\ closing = 0
    /\ pool # 0
    /\ closing' = pool
    /\ UNCHANGED <<now, chatVars, asyncVars, adminVars, seedVars, pool, pool_seq,
                   created, closes, getter, taskVars, routeVars, poolVars,
                   statsVars>>

\* self.pool.close() returns: self.pool = None.
CloseEnd ==
    /\ closing # 0
    /\ pool' = 0
    /\ closing' = 0
    /\ created' = 0
    /\ closes' = closes + 1
    /\ UNCHANGED <<now, chatVars, asyncVars, adminVars, seedVars, pool_seq, getter,
                   taskVars, routeVars, poolVars, statsVars>>

ConnNext ==
    \/ \E a \in Callers : GetPoolCheck(a)
    \/ \E a \in Callers : GetPoolCreated(a)
    \/ \E a \in Callers : GetPoolDone(a)
    \/ CloseStart
    \/ CloseEnd

ApiStart ==
    /\ chat = NoChat
    /\ sync_call = NoSync
    /\ disconnected = {}
    /\ SeedStart
    /\ ConnStart

\* raise HTTPException(status_code=400, ...) inside the route's try block:
\* create_chat_completion has no "except HTTPException: raise", its
\* "except Exception" answers 500.
chat_rejected(request, detail) ==
    [NoChat EXCEPT !.pc = "rejected", !.request = request, !.status = 500,
                   !.detail = detail]

\* create_chat_completion up to the call of handle_generation.
create_chat_completion(request) ==
    IF request.content.kind = "none"
    THEN chat_rejected(request, "Messages cannot be empty")
    ELSE LET parsed == parse_content(request.content, request.remix_target_id,
                                     request.image, request.video)
         IN  IF request.model \notin DOMAIN MODEL_CONFIG
             THEN chat_rejected(request, "Invalid model")
             ELSE [NoChat EXCEPT !.pc = "handler", !.request = request,
                                 !.prompt = parsed.prompt,
                                 !.remix_target_id = parsed.remix_target_id,
                                 !.image = parsed.image,
                                 !.video = parsed.video]

\* A chat completion request arrives and is taken as far as the handler.
ChatCompletion(request) ==
    /\ chat.pc = "idle"
    /\ chat' = create_chat_completion(request)
    /\ UNCHANGED <<now, asyncVars, adminVars, seedVars, connVars, taskVars, routeVars, poolVars, statsVars>>

\* The fields image and video of a chat request: both absent, or a base64
\* image and the URL of a video.
MediaFields == {<<NULL, NULL>>, <<RawBase64, HttpVideo>>}

ChatNext ==
    \E model \in ModelNames, content \in Contents,
       remix_target_id \in {NULL, <<>>, RemixIdB}, stream \in BOOLEAN,
       media \in MediaFields :
        ChatCompletion(ChatCompletionRequest(model, content, remix_target_id,
                                             stream, media[1], media[2]))

(***************************************************************************)
(* Credentials: the tokens and token_stats tables of database.py, and the  *)
(* credential pool and orchestrator that use them.                         *)
(***************************************************************************)
Tokens == {1, 2}
Reqs == {"r1", "r2"}
MediaTypes == {"image", "video"}
MaxRequests == 2
MaxTime == 3
TicksPerDay == 2
CooldownTicks == 1
Conns == {"k1", "k2"}
StatsOps == {"image", "video", "error"}
MaxCalls == 3

BanThresholds == {1, 2, DefaultBanThreshold}

AdminConfig(error_ban_threshold) == [error_ban_threshold |-> error_ban_threshold]

\* date.today() at timestamp t
Today(t) == (t + TicksPerDay - 1) \div TicksPerDay

\* The dates date.today() returns while the clock runs.
Dates == {Today(t) : t \in 1..MaxTime}

\* models.py Token, with the defaults of the class; 0 stands for NULL in
\* the timestamp columns.
Token(image_concurrency, video_concurrency) ==
    [is_active |-> TRUE, cooled_until |-> 0, expiry_time |-> 0,
     last_used_at |-> 0, use_count |-> 0,
     image_enabled |-> TRUE, video_enabled |-> TRUE,
     image_concurrency |-> image_concurrency,
     video_concurrency |-> video_concurrency,
     is_expired |-> FALSE]

\* models.py TokenStats, as INSERT INTO token_stats (token_id) leaves it.
TokenStats ==
    [image_count |-> 0, video_count |-> 0, error_count |-> 0,
     last_error_at |-> 0, today_image_count |-> 0, today_video_count |-> 0,
     today_error_count |-> 0, today_date |-> 0, consecutive_error_count |-> 0]

\* A faulty selection: the query without its is_active test.
get_active_tokens_any_status(tbl, t) ==
    {c \in DOMAIN tbl :
        /\ (tbl[c].cooled_until = 0 \/ tbl[c].cooled_until < t)
        /\ (tbl[c].expiry_time = 0 \/ tbl[c].expiry_time > t)}

\* SELECT * FROM tokens WHERE is_active = TRUE
\*   AND (cooled_until IS NULL OR cooled_until < CURRENT_TIMESTAMP)
\*   AND (expiry_time IS NULL OR expiry_time > CURRENT_TIMESTAMP)
get_active_tokens(tbl, t) ==
    {c \in DOMAIN tbl :
        /\ tbl[c].is_active
        /\ (tbl[c].cooled_until = 0 \/ tbl[c].cooled_until < t)
        /\ (tbl[c].expiry_time = 0 \/ tbl[c].expiry_time > t)}

\* ORDER BY last_used_at ASC NULLS FIRST: the orders in which the rows of
\* the set S can be returned; rows with equal keys come in any order.
order_by_last_used_at(tbl, S) ==
    {rows \in [1..Cardinality(S) -> S] :
        /\ \A i, j \in 1..Cardinality(S) : i # j => rows[i] # rows[j]
        /\ \A i, j \in 1..Cardinality(S) :
              i < j => tbl[rows[i]].last_used_at <= tbl[rows[j]].last_used_at}

\* UPDATE tokens SET last_used_at = CURRENT_TIMESTAMP, use_count = use_count + 1
update_token_usage(tbl, c, t) ==
    [tbl EXCEPT ![c].last_used_at = t, ![c].use_count = @ + 1]

\* UPDATE tokens SET is_active = $1
update_token_status(tbl, c, is_active) ==
    [tbl EXCEPT ![c].is_active = is_active]

\* A faulty mark_token_expired: the flag is set, the credential stays active.
mark_token_expired_still_active(tbl, c) ==
    [tbl EXCEPT ![c].is_expired = TRUE]

\* UPDATE tokens SET is_expired = TRUE, is_active = FALSE
mark_token_expired(tbl, c) ==
    [tbl EXCEPT ![c].is_expired = TRUE, ![c].is_active = FALSE]

\* UPDATE tokens SET cooled_until = $1
update_token_cooldown(tbl, c, cooled_until) ==
    [tbl EXCEPT ![c].cooled_until = cooled_until]

\* The UPDATE of increment_image_count.  row_date is the today_date its
\* SELECT read and today the date.today() taken before it; the columns on
\* the right-hand sides are read when the UPDATE runs.
increment_image_count(stats, c, row_date, today) ==
    IF row_date # today
    THEN [stats EXCEPT ![c].image_count = @ + 1, ![c].today_image_count = 1,
                       ![c].today_date = today]
    ELSE [stats EXCEPT ![c].image_count = @ + 1, ![c].today_image_count = @ + 1,
                       ![c].today_date = today]

\* A faulty increment_video_count: the UPDATE of the first call of a day
\* writes the total it read instead of adding to the stored one.
increment_video_count_stale_total(stats, c, row_date, today) ==
    IF row_date # today
    THEN [stats EXCEPT ![c].video_count = 1, ![c].today_video_count = 1,
                       ![c].today_date = today]
    ELSE [stats EXCEPT ![c].video_count = @ + 1, ![c].today_video_count = @ + 1,
                       ![c].today_date = today]

\* The UPDATE of increment_video_count.
increment_video_count(stats, c, row_date, today) ==
    IF row_date # today
    THEN [stats EXCEPT ![c].video_count = @ + 1, ![c].today_video_count = 1,
                       ![c].today_date = today]
    ELSE [stats EXCEPT ![c].video_count = @ + 1, ![c].today_video_count = @ + 1,
                       ![c].today_date = today]

\* A faulty increment_error_count: the consecutive count is left alone
\* whatever increment_consecutive says.
increment_error_count_total_only(stats, c, row_date, today, increment_consecutive, t) ==
    IF row_date # today
    THEN [stats EXCEPT ![c].error_count = @ + 1,
                       ![c].today_error_count = 1,
                       ![c].today_date = today,
                       ![c].last_error_at = t]
    ELSE [stats EXCEPT ![c].error_count = @ + 1,
                       ![c].today_error_count = @ + 1,
                       ![c].today_date = today,
                       ![c].last_error_at = t]

\* The UPDATE of increment_error_count, run at timestamp t.
increment_error_count(stats, c, row_date, today, increment_consecutive, t) ==
    LET consecutive == IF increment_consecutive THEN 1 ELSE 0
    IN  IF row_date # today
        THEN [stats EXCEPT ![c].error_count = @ + 1,
                           ![c].consecutive_error_count = @ + consecutive,
                           ![c].today_error_count = 1,
                           ![c].today_date = today,
                           ![c].last_error_at = t]
        ELSE [stats EXCEPT ![c].error_count = @ + 1,
                           ![c].consecutive_error_count = @ + consecutive,
                           ![c].today_error_count = @ + 1,
                           ![c].today_date = today,
                           ![c].last_error_at = t]

\* A faulty reset_error_count: the historical total is cleared as well.
reset_error_count_clears_total(stats, c) ==
    [stats EXCEPT ![c].consecutive_error_count = 0, ![c].error_count = 0]

\* UPDATE token_stats SET consecutive_error_count = 0
reset_error_count(stats, c) ==
    [stats EXCEPT ![c].consecutive_error_count = 0]

\* A connection with no statement in progress; op and token_id remember the
\* last statement it ran.
NoStmt ==
    [pc |-> "idle", op |-> "none", token_id |-> 0,
     increment_consecutive |-> FALSE, today |-> 0, row_date |-> 0]

StatsStart ==
    /\ conn = [k \in Conns |-> NoStmt]
    /\ calls = 0
    /\ performed = [c \in Tokens |-> [op \in StatsOps |-> [d \in Dates |-> 0]]]

\* --- The pool and the orchestrator -------------------------------------

Failures == {"transient", "rate_limited", "credential_invalidated", "fatal"}
Outcomes == {"success"} \cup Failures

concurrency_limit(tbl, c, media) ==
    IF media = "image" THEN tbl[c].image_concurrency ELSE tbl[c].video_concurrency

capability_enabled(tbl, c, media) ==
    IF media = "image" THEN tbl[c].image_enabled ELSE tbl[c].video_enabled

\* A faulty lease test: the ceiling is never looked at.
can_acquire_no_ceiling(tbl, leases, c, media) ==
    leases[c][media] >= 0

\* The lease test of acquire: -1 means no limit.
can_acquire(tbl, leases, c, media) ==
    \/ concurrency_limit(tbl, c, media) = -1
    \/ leases[c][media] < concurrency_limit(tbl, c, media)

acquire(leases, c, media) == [leases EXCEPT ![c][media] = @ + 1]

\* A faulty release: the lease stays counted.
release_nothing(leases, c, media) == leases

release(leases, c, media) == [leases EXCEPT ![c][media] = @ - 1]

\* One attempt of a generation: the credential it ran on and what the
\* backend answered.
Attempt(c, outcome) == [token |-> c, outcome |-> outcome]

tried(r) == {req[r].attempts[i].token : i \in DOMAIN req[r].attempts}

\* The candidate set of a selection: active, capability-enabled, not cooled
\* down, not expired, below the concurrency ceiling, not yet attempted by
\* this generation.
Candidates(r) ==
    {c \in get_active_tokens(tokens, now) :
        /\ capability_enabled(tokens, c, req[r].media)
        /\ can_acquire(tokens, in_flight, c, req[r].media)
        /\ c \notin tried(r)}

\* release(handle, success): reset the consecutive count, bump the usage
\* and the counter of the media type.
record_success(stats, c, media, t) ==
    LET reset == reset_error_count(stats, c)
    IN  IF media = "image"
        THEN increment_image_count(reset, c, reset[c].today_date, Today(t))
        ELSE increment_video_count(reset, c, reset[c].today_date, Today(t))

\* release(handle, failure), the statistics: the total always, the
\* consecutive count unless the failure is rate_limited.
record_error_stats(stats, c, outcome, t) ==
    increment_error_count(stats, c, stats[c].today_date, Today(t),
                          outcome # "rate_limited", t)

\* release(handle, failure), the credential: deactivate it when the
\* consecutive count, having been incremented, has reached the ban
\* threshold; cool it down after a rate-limited or transient failure; mark
\* it expired after credential_invalidated.  stats is token_stats after
\* record_error_stats.
record_error(tbl, stats, c, outcome, t) ==
    LET banned == IF outcome # "rate_limited"
                     /\ stats[c].consecutive_error_count
                            >= admin_config.error_ban_threshold
                  THEN update_token_status(tbl, c, FALSE) ELSE tbl
        cooled == IF outcome \in {"rate_limited", "transient"}
                  THEN update_token_cooldown(banned, c, t + CooldownTicks)
                  ELSE banned
    IN  IF outcome = "credential_invalidated"
        THEN mark_token_expired(cooled, c) ELSE cooled

\* The error a generation surfaces when no credential is left to try.
terminal_error(r) ==
    IF req[r].attempts = <<>> THEN "pool_exhausted"
    ELSE IF req[r].attempts[Len(req[r].attempts)].outcome = "credential_invalidated"
         THEN "structured_error"
    ELSE "error"

\* A faulty orchestrator: it goes on to the next credential whatever the
\* failure was.
after_failure_always_retry(outcome) == "select"

\* What the orchestrator does after a failed attempt: a fatal failure ends
\* the generation, any other one is followed by another selection.
after_failure(outcome) == IF outcome = "fatal" THEN "done" ELSE "select"

NoReq == [pc |-> "idle", media |-> "image", token |-> 0, attempts |-> <<>>,
          result |-> "none"]

PoolStart ==
    /\ tokens = [c \in Tokens |-> Token(-1, -1)]
    /\ token_stats = [c \in Tokens |-> TokenStats]
    /\ in_flight = [c \in Tokens |-> [m \in MediaTypes |-> 0]]
    /\ admin_config = AdminConfig(DefaultBanThreshold)
    /\ req = [r \in Reqs |-> NoReq]
    /\ served = 0
    /\ token_seq = Cardinality(Tokens)

\* Two credentials have been imported, one with its image generations
\* limited to one at a time, the other with its video generations; the ban
\* threshold is the one the configuration was seeded with.
Init ==
    /\ now = 1
    /\ TaskStart
    /\ RouteStart
    /\ StatsStart
    /\ ApiStart
    /\ tokens = (1 :> Token(1, -1)) @@ (2 :> Token(-1, 1))
    /\ token_stats = [c \in Tokens |-> TokenStats]
    /\ in_flight = [c \in Tokens |-> [m \in MediaTypes |-> 0]]
    /\ admin_config \in {AdminConfig(n) : n \in BanThresholds}
    /\ req = [r \in Reqs |-> NoReq]
    /\ served = 0
    /\ token_seq = Cardinality(Tokens)

\* handle_generation is called.
Start(r, media) ==
    /\ req[r].pc = "idle"
    /\ served < MaxRequests
    /\ served' = served + 1
    /\ req' = [req EXCEPT ![r] = [NoReq EXCEPT !.pc = "select", !.media = media]]
    /\ UNCHANGED <<now, apiVars, taskVars, routeVars, statsVars, tokens, token_stats,
                   in_flight, admin_config>>

\* acquire(): one candidate is taken and its lease counted in the same step;
\* with no candidate left the generation ends with an error.
Select(r) ==
    /\ req[r].pc = "select"
    /\ IF Candidates(r) = {}
       THEN /\ req' = [req EXCEPT ![r].pc = "done", ![r].result = terminal_error(r)]
            /\ UNCHANGED in_flight
       ELSE \E c \in Candidates(r) :
            /\ in_flight' = acquire(in_flight, c, req[r].media)
            /\ req' = [req EXCEPT ![r].pc = "attempt", ![r].token = c]
    /\ UNCHANGED <<now, apiVars, taskVars, routeVars, statsVars, tokens, token_stats,
                   admin_config, served>>

\* The backend reports success: release(handle, success), and the caller
\* gets the result.
BackendSuccess(r) ==
    /\ req[r].pc = "attempt"
    /\ LET c == req[r].token
       IN  /\ tokens' = update_token_usage(tokens, c, now)
           /\ token_stats' = record_success(token_stats, c, req[r].media, now)
           /\ in_flight' = release(in_flight, c, req[r].media)
           /\ req' = [req EXCEPT ![r].pc = "done",
                                 ![r].attempts = Append(@, Attempt(c, "success")),
                                 ![r].result = "success"]
    /\ UNCHANGED <<now, apiVars, taskVars, routeVars, statsVars, admin_config, served>>

\* The backend reports a failure: release(handle, failure); a fatal failure
\* is surfaced at once, any other one is followed by another selection.
BackendFailure(r, outcome) ==
    /\ req[r].pc = "attempt"
    /\ LET c == req[r].token
           stats == record_error_stats(token_stats, c, outcome, now)
       IN  /\ token_stats' = stats
           /\ tokens' = record_error(tokens, stats, c, outcome, now)
           /\ in_flight' = release(in_flight, c, req[r].media)
           /\ req' = [req EXCEPT
                 ![r].attempts = Append(@, Attempt(c, outcome)),
                 ![r].pc = after_failure(outcome),
                 ![r].result = IF outcome = "fatal" THEN "structured_error" ELSE @]
    /\ UNCHANGED <<now, apiVars, taskVars, routeVars, statsVars, admin_config, served>>

\* The caller has its answer.
Finish(r) ==
    /\ req[r].pc = "done"
    /\ req' = [req EXCEPT ![r] = NoReq]
    /\ UNCHANGED <<now, apiVars, taskVars, routeVars, statsVars, tokens, token_stats,
                   in_flight, admin_config, served>>

\* An administrator enables or disables a credential.
UpdateTokenStatus(c, is_active) ==
    /\ tokens' = update_token_status(tokens, c, is_active)
    /\ UNCHANGED <<now, apiVars, taskVars, routeVars, statsVars, token_stats, in_flight,
                   admin_config, req, served>>

Next ==
    \/ \E r \in Reqs, media \in MediaTypes : Start(r, media)
    \/ \E r \in Reqs : Select(r)
    \/ \E r \in Reqs : BackendSuccess(r)
    \/ \E r \in Reqs, outcome \in Failures : BackendFailure(r, outcome)
    \/ \E r \in Reqs : Finish(r)
    \/ \E c \in Tokens, is_active \in BOOLEAN : UpdateTokenStatus(c, is_active)

Spec == Init /\ [][Next]_vars

(***************************************************************************)
(* The statistics of database.py under concurrent callers: each increment  *)
(* is a SELECT of today_date followed by an UPDATE, on a connection of its *)
(* own, and the clock may pass midnight at any point.                      *)
(***************************************************************************)
\* SELECT today_date FROM token_stats, with today = date.today() taken
\* just before it.
IncrementSelect(k, op, c, increment_consecutive) ==
    /\ conn[k].pc = "idle"
    /\ calls < MaxCalls
    /\ op # "error" => increment_consecutive
    /\ conn' = [conn EXCEPT ![k] =
                   [pc |-> "update", op |-> op, token_id |-> c,
                    increment_consecutive |-> increment_consecutive,
                    today |-> Today(now),
                    row_date |-> token_stats[c].today_date]]
    /\ calls' = calls + 1
    /\ UNCHANGED <<now, apiVars, taskVars, routeVars, poolVars, performed>>

\* The UPDATE of the increment, chosen by what the SELECT returned.
IncrementUpdate(k) ==
    /\ conn[k].pc = "update"
    /\ LET c == conn[k].token_id
       IN  token_stats' =
             CASE conn[k].op = "image" ->
                    increment_image_count(token_stats, c, conn[k].row_date,
                                          conn[k].today)
               [] conn[k].op = "video" ->
                    increment_video_count(token_stats, c, conn[k].row_date,
                                          conn[k].today)
               [] OTHER ->
                    increment_error_count(token_stats, c, conn[k].row_date,
                                          conn[k].today,
                                          conn[k].increment_consecutive, now)
    /\ performed' = [performed EXCEPT
                         ![conn[k].token_id][conn[k].op][conn[k].today] = @ + 1]
    /\ conn' = [conn EXCEPT ![k].pc = "idle", ![k].today = 0, ![k].row_date = 0]
    /\ UNCHANGED <<now, apiVars, taskVars, routeVars, tokens, in_flight, admin_config,
                   req, served, calls>>

\* reset_error_count: a single UPDATE.
ResetErrorCount(k, c) ==
    /\ conn[k].pc = "idle"
    /\ calls < MaxCalls
    /\ token_stats' = reset_error_count(token_stats, c)
    /\ conn' = [conn EXCEPT ![k] = [NoStmt EXCEPT !.op = "reset", !.token_id = c]]
    /\ calls' = calls + 1
    /\ UNCHANGED <<now, apiVars, taskVars, routeVars, tokens, in_flight, admin_config,
                   req, served, performed>>

\* Time passes; with TicksPerDay ticks the date changes.
Tick ==
    /\ now < MaxTime
    /\ now' = now + 1
    /\ UNCHANGED <<apiVars, taskVars, routeVars, poolVars, statsVars>>

StatsNext ==
    \/ \E k \in Conns, op \in StatsOps, c \in Tokens, inc \in BOOLEAN :
          IncrementSelect(k, op, c, inc)
    \/ \E k \in Conns : IncrementUpdate(k)
    \/ \E k \in Conns, c \in Tokens : ResetErrorCount(k, c)
    \/ Tick

StatsInit ==
    now = 1 /\ TaskStart /\ RouteStart /\ PoolStart /\ StatsStart /\ ApiStart

SpecStats == StatsInit /\ [][StatsNext]_vars

RouteInit ==
    now = 1 /\ TaskStart /\ RouteStart /\ PoolStart /\ StatsStart /\ ApiStart

SpecRoute == RouteInit /\ [][RouteNext]_vars

SeedInit ==
    now = 1 /\ TaskStart /\ RouteStart /\ PoolStart /\ StatsStart /\ ApiStart

SpecSeed == SeedInit /\ [][SeedNext]_vars

ConnInit ==
    now = 1 /\ TaskStart /\ RouteStart /\ PoolStart /\ StatsStart /\ ApiStart

SpecConn == ConnInit /\ [][ConnNext]_vars

TaskInit ==
    now = 1 /\ TaskStart /\ RouteStart /\ PoolStart /\ StatsStart /\ ApiStart

SpecTask == TaskInit /\ [][TaskNext]_vars

ChatInit ==
    now = 1 /\ TaskStart /\ RouteStart /\ PoolStart /\ StatsStart /\ ApiStart

SpecChat == ChatInit /\ [][ChatNext]_vars

(***************************************************************************)
(* Background generations and cancellation.  submit_generation_task has    *)
(* created the task row when the route answers; the generation goes on in  *)
(* a background worker that reports to the row through update_task.  A     *)
(* synchronous streaming generation holds a lease of its credential while  *)
(* it polls the backend, and is cancelled when its client disconnects.     *)
(***************************************************************************)
MaxPolls == 2
MaxAdminErrors == 1
MaxStreams == 1

\* The endpoints a task is submitted through in this specification.
AsyncEndpoints == {"/v1/images/generate", "/v1/characters/create"}

\* The background generation of task t reports progress.
BackgroundProgress(t) ==
    /\ t \in DOMAIN tasks
    /\ tasks[t].status = "processing"
    /\ tasks[t].progress < 50
    /\ tasks' = update_task(tasks, t, "processing", 50, NULL, NULL)
    /\ UNCHANGED <<now, apiVars, response, routeVars, poolVars, statsVars>>

\* The background generation of task t ends and records its terminal status.
BackgroundFinish(t, status) ==
    /\ t \in DOMAIN tasks
    /\ tasks[t].status = "processing"
    /\ tasks' = IF status = "completed"
                THEN update_task(tasks, t, "completed", 100, "[\"u\"]", NULL)
                ELSE update_task(tasks, t, "failed", tasks[t].progress, NULL, "boom")
    /\ UNCHANGED <<now, apiVars, response, routeVars, poolVars, statsVars>>

Background(t) ==
    \/ BackgroundProgress(t)
    \/ \E status \in {"completed", "failed"} : BackgroundFinish(t, status)

\* The caller that submitted task t closes its connection.
CallerDisconnect(t) ==
    /\ t \in DOMAIN tasks
    /\ t \notin disconnected
    /\ disconnected' = disconnected \cup {t}
    /\ UNCHANGED <<now, chatVars, adminVars, seedVars, connVars,
                   sync_call, taskVars, routeVars, poolVars, statsVars>>

\* A synchronous streaming generation acquires a credential and starts to
\* poll the backend.
StreamStart(c, media) ==
    /\ sync_call.pc \in {"idle", "done", "cancelled"}
    /\ sync_call.started < MaxStreams
    /\ c \in get_active_tokens(tokens, now)
    /\ capability_enabled(tokens, c, media)
    /\ can_acquire(tokens, in_flight, c, media)
    /\ in_flight' = acquire(in_flight, c, media)
    /\ sync_call' = [pc |-> "polling", token |-> c, media |-> media, polls |-> 0,
                     connected |-> TRUE, started |-> sync_call.started + 1]
    /\ UNCHANGED <<now, chatVars, adminVars, seedVars, connVars,
                   disconnected, taskVars, routeVars, statsVars,
                   tokens, token_stats, admin_config, req, served>>

\* One poll of the backend; the progress goes to the client.
StreamPoll ==
    /\ sync_call.pc = "polling"
    /\ sync_call.connected
    /\ sync_call.polls < MaxPolls
    /\ sync_call' = [sync_call EXCEPT !.polls = @ + 1]
    /\ UNCHANGED <<now, chatVars, adminVars, seedVars, connVars,
                   disconnected, taskVars, routeVars, poolVars, statsVars>>

\* The backend has the result: release(handle, success).
StreamEnd ==
    /\ sync_call.pc = "polling"
    /\ sync_call.connected
    /\ tokens' = update_token_usage(tokens, sync_call.token, now)
    /\ token_stats' = record_success(token_stats, sync_call.token, sync_call.media, now)
    /\ in_flight' = release(in_flight, sync_call.token, sync_call.media)
    /\ sync_call' = [sync_call EXCEPT !.pc = "done"]
    /\ UNCHANGED <<now, chatVars, adminVars, seedVars, connVars,
                   disconnected, taskVars, routeVars, statsVars,
                   admin_config, req, served>>

\* The client of the streaming call closes its connection.
StreamDisconnect ==
    /\ sync_call.pc = "polling"
    /\ sync_call.connected
    /\ sync_call' = [sync_call EXCEPT !.connected = FALSE]
    /\ UNCHANGED <<now, chatVars, adminVars, seedVars, connVars,
                   disconnected, taskVars, routeVars, poolVars, statsVars>>

\* The generation notices the disconnect before its next poll: it stops
\* polling and releases the lease.
StreamCancel ==
    /\ sync_call.pc = "polling"
    /\ ~sync_call.connected
    /\ in_flight' = release(in_flight, sync_call.token, sync_call.media)
    /\ sync_call' = [sync_call EXCEPT !.pc = "cancelled"]
    /\ UNCHANGED <<now, chatVars, adminVars, seedVars, connVars,
                   disconnected, taskVars, routeVars, statsVars,
                   tokens, token_stats, admin_config, req, served>>

AsyncNext ==
    \/ \E ep \in AsyncEndpoints, st \in BOOLEAN : Receive(ep, st, TRUE, "valid")
    \/ \E t \in TaskIds : BackgroundProgress(t)
    \/ \E t \in TaskIds, status \in {"completed", "failed"} : BackgroundFinish(t, status)
    \/ \E t \in TaskIds : CallerDisconnect(t)
    \/ \E c \in Tokens, media \in MediaTypes : StreamStart(c, media)
    \/ StreamPoll
    \/ StreamEnd
    \/ StreamDisconnect
    \/ StreamCancel

AsyncInit ==
    now = 1 /\ TaskStart /\ RouteStart /\ PoolStart /\ StatsStart /\ ApiStart

\* A background worker that can take a step takes it, and so does the
\* cancellation of a disconnected streaming call.
SpecAsync ==
    /\ AsyncInit /\ [][AsyncNext]_vars
    /\ \A t \in TaskIds : WF_vars(Background(t))
    /\ WF_vars(StreamCancel)

(***************************************************************************)
(* The store under administration: credentials are imported, edited,      *)
(* expired, re-enabled and deleted while tasks are created and updated,    *)
(* statistics reset and the configuration changed.                         *)
(***************************************************************************)
\* INSERT INTO tokens (...) RETURNING id, with the id the sequence gives;
\* is_expired is not among the columns and takes its default.
add_token(tbl, id, token) == tbl @@ (id :> [token EXCEPT !.is_expired = FALSE])

\* DELETE FROM token_stats WHERE token_id = $1; DELETE FROM tokens WHERE id = $1
delete_token(tbl, c) == [d \in DOMAIN tbl \ {c} |-> tbl[d]]

\* UPDATE tokens SET is_expired = FALSE
clear_token_expired(tbl, c) == [tbl EXCEPT ![c].is_expired = FALSE]

\* update_token: the columns whose argument is not None, the ones named in
\* given, are written; is_active and is_expired are not among its arguments.
update_token(tbl, c, given, expiry_time, image_enabled) ==
    [tbl EXCEPT
        ![c].expiry_time = IF "expiry_time" \in given THEN expiry_time ELSE @,
        ![c].image_enabled = IF "image_enabled" \in given THEN image_enabled ELSE @]

\* UPDATE admin_config SET ... error_ban_threshold = $4 WHERE id = 1
update_admin_config(config) == config

AddToken(is_active) ==
    /\ token_seq < Cardinality(Tokens)
    /\ token_seq' = token_seq + 1
    /\ tokens' = add_token(tokens, token_seq + 1,
                           [Token(-1, -1) EXCEPT !.is_active = is_active])
    /\ token_stats' = token_stats @@ (token_seq + 1 :> TokenStats)
    /\ UNCHANGED <<now, chatVars, asyncVars, seedVars, connVars, taskVars, routeVars, statsVars,
                   in_flight, admin_config, req, served>>

DeleteToken(c) ==
    /\ c \in DOMAIN tokens
    /\ tokens' = delete_token(tokens, c)
    /\ token_stats' = delete_token(token_stats, c)
    /\ UNCHANGED <<now, apiVars, taskVars, routeVars, statsVars,
                   in_flight, admin_config, req, served>>

MarkTokenExpired(c) ==
    /\ c \in DOMAIN tokens
    /\ tokens' = mark_token_expired(tokens, c)
    /\ UNCHANGED <<now, apiVars, taskVars, routeVars, statsVars, token_stats,
                   in_flight, admin_config, req, served>>

ClearTokenExpired(c) ==
    /\ c \in DOMAIN tokens
    /\ tokens' = clear_token_expired(tokens, c)
    /\ UNCHANGED <<now, apiVars, taskVars, routeVars, statsVars, token_stats,
                   in_flight, admin_config, req, served>>

UpdateToken(c, given, expiry_time, image_enabled) ==
    /\ c \in DOMAIN tokens
    /\ tokens' = update_token(tokens, c, given, expiry_time, image_enabled)
    /\ UNCHANGED <<now, apiVars, taskVars, routeVars, statsVars, token_stats,
                   in_flight, admin_config, req, served>>

\* reset_error_count of a credential that exists.
AdminResetErrorCount(c) ==
    /\ c \in DOMAIN token_stats
    /\ token_stats' = reset_error_count(token_stats, c)
    /\ UNCHANGED <<now, apiVars, taskVars, routeVars, statsVars, tokens,
                   in_flight, admin_config, req, served>>

\* increment_error_count of a credential that exists, once per credential.
AdminIncrementErrorCount(c) ==
    /\ c \in DOMAIN token_stats
    /\ token_stats[c].error_count < MaxAdminErrors
    /\ token_stats' = increment_error_count(token_stats, c, token_stats[c].today_date,
                                            Today(now), TRUE, now)
    /\ UNCHANGED <<now, apiVars, taskVars, routeVars, statsVars, tokens,
                   in_flight, admin_config, req, served>>

UpdateAdminConfig(error_ban_threshold) ==
    /\ admin_config' = update_admin_config(AdminConfig(error_ban_threshold))
    /\ UNCHANGED <<now, apiVars, taskVars, routeVars, statsVars, tokens, token_stats,
                   in_flight, req, served>>

\* The background generation of a task: its updates as submit_generation_task
\* makes them, in progress, completed or failed.
AdminUpdateTask(t, status) ==
    CASE status = "processing" -> UpdateTask(t, status, 50, NULL, NULL)
      [] status = "completed" -> UpdateTask(t, status, 100, "[\"u\"]", NULL)
      [] status = "failed" -> UpdateTask(t, status, 0, NULL, "boom")

AdminNext ==
    \/ \E is_active \in BOOLEAN : AddToken(is_active)
    \/ \E c \in Tokens : DeleteToken(c)
    \/ \E c \in Tokens : MarkTokenExpired(c)
    \/ \E c \in Tokens : ClearTokenExpired(c)
    \/ \E c \in DOMAIN tokens, is_active \in BOOLEAN : UpdateTokenStatus(c, is_active)
    \/ \E c \in Tokens, given \in SUBSET {"expiry_time", "image_enabled"} :
          UpdateToken(c, given, MaxTime, FALSE)
    \/ \E c \in Tokens : AdminResetErrorCount(c)
    \/ \E c \in Tokens : AdminIncrementErrorCount(c)
    \/ \E th \in BanThresholds : UpdateAdminConfig(th)
    \/ \E t \in TaskIds : CreateTask(t, "gpt-image")
    \/ \E t \in TaskIds, status \in TaskStatuses : AdminUpdateTask(t, status)

\* A new installation: the tables of credentials and tasks are empty.
AdminInit ==
    /\ now = 1 /\ TaskStart /\ RouteStart /\ StatsStart
    /\ chat = NoChat /\ sync_call = NoSync /\ disconnected = {}
    /\ SeedStart /\ ConnStart
    /\ token_seq = 0
    /\ tokens = << >>
    /\ token_stats = << >>
    /\ in_flight = [c \in Tokens |-> [m \in MediaTypes |-> 0]]
    /\ admin_config = AdminConfig(DefaultBanThreshold)
    /\ req = [r \in Reqs |-> NoReq]
    /\ served = 0

SpecAdmin == AdminInit /\ [][AdminNext]_vars

(***************************************************************************)
(* Properties.                                                             *)
(***************************************************************************)
Terminal == {"completed", "failed"}

\* C3: for every task the recorded progress never decreases, and once a
\* terminal status is recorded no later update changes the status.
C3_ProgressMonotoneTerminalOnce ==
    [][\A t \in DOMAIN tasks :
          /\ tasks'[t].progress >= tasks[t].progress
          /\ tasks[t].status \in Terminal => tasks'[t].status = tasks[t].status]_vars

\* C4: the status query of a completed character-creation task that stores
\* an identity object succeeds and exposes the object; for every other model
\* an exposed result is a list.
C4_CharacterResultIsObject ==
    response.code \notin {0, 404} =>
        /\ ( /\ response.model = "character-creation"
             /\ response.status = "completed"
             /\ JsonLoads(response.stored) = "dict" )
           => (response.code = 200 /\ response.shape = "dict")
        /\ (response.model # "character-creation" /\ response.code = 200
              /\ response.shape # "none")
           => response.shape = "list"

\* The chunks a streaming response has passed on, in the handler's order.
Chunks(k) == [i \in 1..k |-> ChunkItem(i)]

FullErrorObject(doc) ==
    /\ doc.top = "object"
    /\ doc.message # ABSENT /\ doc.type # ABSENT
    /\ doc.param # ABSENT /\ doc.code # ABSENT

C6_StructuredErrorSurfaced ==
    (call.pc = "closed" /\ call.failure # NULL
        /\ StructuredError(call.failure) # NoDoc) =>
        IF call.response = "stream"
        THEN out[Len(out) - 1].doc = StructuredError(call.failure)
        ELSE http.doc = StructuredError(call.failure)

\* --- The credential pool ------------------------------------------------

\* In every state the leases of a limited credential are within its limit,
\* and an unlimited credential passes the lease test.
C1_WithinLimit ==
    \A c \in Tokens, m \in MediaTypes :
        LET limit == IF m = "image" THEN tokens[c].image_concurrency
                     ELSE tokens[c].video_concurrency
        IN  /\ in_flight[c][m] >= 0
            /\ limit >= 0 => in_flight[c][m] <= limit
            /\ limit = -1 => can_acquire(tokens, in_flight, c, m)

\* A step changes the lease counter of at most one credential and media
\* type, and by one.
C1_OneCounter ==
    \A c \in Tokens, m \in MediaTypes :
        in_flight'[c][m] # in_flight[c][m] =>
            /\ in_flight'[c][m] - in_flight[c][m] \in {-1, 1}
            /\ \A d \in Tokens, n \in MediaTypes :
                  <<d, n>> # <<c, m>> => in_flight'[d][n] = in_flight[d][n]

\* C1: under any interleaving of acquisitions and releases the in-flight
\* generations of a media type on a credential never exceed a non-negative
\* limit, a limit of -1 never refuses the credential, and an acquisition or
\* release touches the counter of one credential only.
C1_ConcurrencyLimit == []C1_WithinLimit /\ [][C1_OneCounter]_vars

\* A pending image generation finds credential 1 active, enabled and not
\* yet tried, but at its image limit, while credential 1 holds the lease.
C1_Witness ==
    \E r \in Reqs :
        /\ req[r].pc = "select" /\ req[r].media = "image"
        /\ tokens[1].image_concurrency = 1 /\ in_flight[1]["image"] = 1
        /\ 1 \in get_active_tokens(tokens, now) /\ 1 \notin tried(r)
        /\ 1 \notin Candidates(r)
        /\ 2 \in Candidates(r)

\* A deactivated credential is in no selection.
C2_Excluded ==
    \A c \in Tokens :
        ~tokens[c].is_active =>
            /\ c \notin get_active_tokens(tokens, now)
            /\ \A r \in Reqs : c \notin Candidates(r)

\* The step that raises a consecutive count to the threshold or beyond
\* deactivates the credential; only an active credential is acquired; and a
\* deactivated credential becomes active only in a step that is no
\* generation's (the administrator's update_token_status).
C2_Step ==
    \A c \in Tokens :
        /\ ( /\ token_stats'[c].consecutive_error_count
                  > token_stats[c].consecutive_error_count
             /\ token_stats'[c].consecutive_error_count
                  >= admin_config.error_ban_threshold )
           => ~tokens'[c].is_active
        /\ (\E m \in MediaTypes : in_flight'[c][m] > in_flight[c][m])
           => tokens[c].is_active
        /\ (~tokens[c].is_active /\ tokens'[c].is_active)
           => (req' = req /\ token_stats' = token_stats /\ in_flight' = in_flight)

\* C2: a credential whose consecutive-error-count reaches the ban threshold
\* is deactivated by the step that counted the error, no selection returns a
\* deactivated credential, and no success or failure re-activates it: only a
\* manual update of its status does.
C2_BanUntilManualReset == []C2_Excluded /\ [][C2_Step]_vars

\* Credential 1 has been banned by its second consecutive failure at a
\* threshold of 2: neither cooled down nor expired, it is left out of the
\* selection for being inactive.
C2_Witness ==
    /\ admin_config.error_ban_threshold = 2
    /\ token_stats[1].consecutive_error_count = 2
    /\ ~tokens[1].is_active /\ ~tokens[1].is_expired
    /\ tokens[1].cooled_until = 0
    /\ get_active_tokens(tokens, now) = {2}

\* The generation r tried one credential, which failed transiently, then a
\* second one, which succeeded.
Failover(r) ==
    /\ req[r].pc = "done"
    /\ Len(req[r].attempts) = 2
    /\ req[r].attempts[1].outcome = "transient"
    /\ req[r].attempts[2].outcome = "success"

\* The failover returns the success; when it is the only generation there
\* has been, the first credential's count is 1 and the second's 0.
C7_Result ==
    \A r \in Reqs :
        Failover(r) =>
            /\ req[r].result = "success"
            /\ served = 1 =>
                  /\ token_stats[req[r].attempts[1].token].consecutive_error_count = 1
                  /\ token_stats[req[r].attempts[2].token].consecutive_error_count = 0

\* The step that records a transient failure adds exactly one to the
\* credential's consecutive count; the step that records a success leaves
\* it at 0.
C7_Step ==
    \A r \in Reqs :
        (req[r].pc = "attempt" /\ req'[r].pc # "attempt") =>
            LET c == req[r].token
                outcome == req'[r].attempts[Len(req'[r].attempts)].outcome
            IN  /\ outcome = "transient" =>
                      token_stats'[c].consecutive_error_count
                          = token_stats[c].consecutive_error_count + 1
                /\ outcome = "success" =>
                      token_stats'[c].consecutive_error_count = 0

\* C7: when the first credential fails transiently and the second succeeds,
\* the generation returns the success result, the first credential's
\* consecutive-error-count is one higher and the second's is 0.
C7_FailoverAfterTransient == []C7_Result /\ [][C7_Step]_vars

C7_Witness ==
    \E r \in Reqs :
        /\ Failover(r) /\ served = 1 /\ req[r].result = "success"
        /\ token_stats[req[r].attempts[1].token].error_count = 1
        /\ tokens[req[r].attempts[2].token].use_count = 1

\* Every credential the generation r tried answered credential_invalidated
\* and none is left to try.
AllInvalidated(r) ==
    /\ req[r].pc = "done"
    /\ req[r].attempts # <<>>
    /\ \A i \in DOMAIN req[r].attempts :
          req[r].attempts[i].outcome = "credential_invalidated"

\* The caller gets a structured error and every attempted credential is
\* marked expired.
C8_Result ==
    \A r \in Reqs :
        AllInvalidated(r) =>
            /\ req[r].result = "structured_error"
            /\ \A c \in tried(r) : tokens[c].is_expired

\* The step that records credential_invalidated leaves the credential
\* expired, inactive and outside the selection; the expired mark stays, and
\* an expired credential is re-activated by no generation.
C8_Step ==
    /\ \A r \in Reqs :
          ( /\ req[r].pc = "attempt" /\ req'[r].pc # "attempt"
            /\ req'[r].attempts[Len(req'[r].attempts)].outcome
                  = "credential_invalidated" )
          => LET c == req[r].token
             IN  /\ tokens'[c].is_expired /\ ~tokens'[c].is_active
                 /\ c \notin get_active_tokens(tokens', now')
    /\ \A c \in Tokens :
          /\ tokens[c].is_expired => tokens'[c].is_expired
          /\ (tokens[c].is_expired /\ ~tokens[c].is_active /\ tokens'[c].is_active)
                => req' = req

\* C8: when every credential tried answers credential_invalidated the caller
\* receives a structured fatal error, and each attempted credential is left
\* expired and inactive, so that no later selection returns it.
C8_AllInvalidated == []C8_Result /\ [][C8_Step]_vars

C8_Witness ==
    \E r \in Reqs :
        /\ AllInvalidated(r) /\ tried(r) = Tokens
        /\ req[r].result = "structured_error"
        /\ \A c \in Tokens : tokens[c].is_expired /\ ~tokens[c].is_active
        /\ get_active_tokens(tokens, now) = {}

\* --- The statistics -----------------------------------------------------

\* The errors the row counts for the date today.
SameDayErrors(stats, c, today) ==
    IF stats[c].today_date = today THEN stats[c].today_error_count ELSE 0

\* C9: recording a failure adds one to the credential's total and to its
\* same-day error count; a rate-limited failure (increment_consecutive
\* false) leaves the consecutive count unchanged, every other failure adds
\* exactly one to it.
C9_ErrorCounts ==
    [][\A k \in Conns :
          (conn[k].pc = "update" /\ conn'[k].pc = "idle" /\ conn[k].op = "error") =>
              LET c == conn[k].token_id
              IN  /\ token_stats'[c].error_count = token_stats[c].error_count + 1
                  /\ SameDayErrors(token_stats', c, conn[k].today)
                        = SameDayErrors(token_stats, c, conn[k].today) + 1
                  /\ token_stats'[c].consecutive_error_count
                        = token_stats[c].consecutive_error_count
                            + (IF conn[k].increment_consecutive THEN 1 ELSE 0)]_vars

\* C10: image_count, video_count and error_count never decrease, whatever
\* the order of the increments and resets and whatever the date; and
\* reset_error_count sets consecutive_error_count to 0 and changes nothing
\* else in token_stats.
C10_TotalsNeverDecrease ==
    [][/\ \A c \in Tokens :
             /\ token_stats'[c].image_count >= token_stats[c].image_count
             /\ token_stats'[c].video_count >= token_stats[c].video_count
             /\ token_stats'[c].error_count >= token_stats[c].error_count
       /\ (calls' = calls + 1 /\ \A k \in Conns : conn'[k].pc = conn[k].pc) =>
             \E c \in Tokens :
                 token_stats' =
                     [token_stats EXCEPT ![c].consecutive_error_count = 0]]_vars

\* On the second day a reset has cleared the consecutive count of a
\* credential that has an error of that day on its record.
C10_Witness ==
    \E k \in Conns :
        /\ conn[k].pc = "idle" /\ conn[k].op = "reset"
        /\ Today(now) = 2
        /\ LET c == conn[k].token_id
           IN  /\ token_stats[c].error_count = 2
               /\ token_stats[c].today_date = 2
               /\ token_stats[c].today_error_count = 1
               /\ token_stats[c].consecutive_error_count = 0

\* --- The chat completion request ----------------------------------------

\* s is 's_' followed by RemixHexLen characters of [0-9a-f].
RemixShape(s) ==
    /\ Len(s) = RemixHexLen + 2
    /\ s[1] = "s" /\ s[2] = "_"
    /\ \A j \in 3..Len(s) : s[j] \in HexChars

\* The texts of the last message, in order.
TextParts(content) ==
    IF content.kind = "str" THEN <<content.text>>
    ELSE LET parts == SelectSeq(content.items, LAMBDA it : it.type = "text")
         IN  [i \in DOMAIN parts |-> parts[i].text]

\* The places <<part, position>> of texts where an identifier starts.
Occurrences(texts) ==
    {pl \in UNION {{<<p, i>> : i \in 1..Len(texts[p])} : p \in DOMAIN texts} :
        /\ pl[2] + RemixHexLen + 1 <= Len(texts[pl[1]])
        /\ RemixShape(SubSeq(texts[pl[1]], pl[2], pl[2] + RemixHexLen + 1))}

Earlier(a, b) == a[1] < b[1] \/ (a[1] = b[1] /\ a[2] <= b[2])

\* C11: the remix identifier handed to handle_generation is the explicit
\* remix_target_id when one is supplied; otherwise the first occurrence, over
\* the text parts in order, of 's_' and 32 characters of [0-9a-f], which is
\* a 34-character piece of that text; otherwise empty.
C11_RemixIdentifier ==
    chat.pc = "handler" =>
        LET texts == TextParts(chat.request.content)
            occ == Occurrences(texts)
        IN  IF ~Falsy(chat.request.remix_target_id)
            THEN chat.remix_target_id = chat.request.remix_target_id
            ELSE IF occ = {} THEN Falsy(chat.remix_target_id)
            ELSE LET first == CHOOSE a \in occ : \A b \in occ : Earlier(a, b)
                 IN  /\ chat.remix_target_id =
                            SubSeq(texts[first[1]], first[2],
                                   first[2] + RemixHexLen + 1)
                     /\ RemixShape(chat.remix_target_id)

\* The share link of identifier A inside a prompt, with no explicit
\* identifier: A is extracted.
C11_Witness ==
    /\ chat.pc = "handler"
    /\ chat.request.remix_target_id = NULL
    /\ chat.request.content = StrContent(Words \o SharePrefix \o RemixIdA)
    /\ chat.remix_target_id = RemixIdA

\* C12: a call of a character endpoint with stream = false, its request valid,
\* is answered with HTTP 400 whose error has type invalid_request_error and
\* param "stream", and the generation handler is not called for it.
C12_NonStreamingCharacterRejected ==
    (/\ call.pc = "closed"
     /\ call.endpoint \in CharacterEndpoints
     /\ call.validation = "valid"
     /\ ~call.stream) =>
        /\ http.status = 400
        /\ http.doc.type = "invalid_request_error"
        /\ http.doc.param = "stream"
        /\ call.handler_calls = 0

\* C13: a request that fails the validation of its route is rejected
\* before the handler is called: the call ends at once with an error status,
\* no handler call is made, no task row is created and no credential, slot
\* or statistic changes.
C13_Rejected ==
    (call.pc # "idle" /\ call.validation # "valid") =>
        /\ call.pc = "closed"
        /\ call.handler_calls = 0
        /\ http.status >= 400

C13_Step ==
    (call' # call /\ call'.validation # "valid") =>
        /\ tasks' = tasks
        /\ poolVars' = poolVars

C13_ValidationBeforeHandler == []C13_Rejected /\ [][C13_Step]_vars

C13_Witness ==
    /\ call.pc = "closed"
    /\ call.validation = "wrong_media_type"
    /\ call.async_mode
    /\ http = http_exception(400)
    /\ tasks = << >>

\* C14: a non-streaming call whose handler returned answers with the first
\* unit the handler produced, whatever it produced after it, and with the
\* HTTP 500 envelope when the handler produced no unit.
C14_FirstUnitReturned ==
    (/\ call.pc = "closed"
     /\ ~call.stream /\ ~call.async_mode
     /\ call.handler_calls = 1
     /\ call.failure = NULL) =>
        IF call.yielded = 0
        THEN http.status = 500 /\ FullErrorObject(http.doc)
        ELSE http.status = 200 /\ http.kind = "result" /\ http.n = 1

\* C15: every failure response, a JSON answer with an error status or an
\* error event of a stream, carries a top-level error object with the
\* members message, type, param and code.
C15_OneErrorEnvelope ==
    /\ http.status >= 400 => FullErrorObject(http.doc)
    /\ \A i \in 1..Len(out) :
          out[i].kind = "error" => FullErrorObject(out[i].doc)

\* On the store as it is, each operation run twice leaves what it leaves
\* when run once.
C16_Retry ==
    \A c \in Tokens :
        LET today == Today(now)
            usage(tbl) == update_token_usage(tbl, c, now)
            expired(tbl) == mark_token_expired(tbl, c)
            cooldown(tbl) == update_token_cooldown(tbl, c, now + CooldownTicks)
            image(stats) == increment_image_count(stats, c, stats[c].today_date, today)
            video(stats) == increment_video_count(stats, c, stats[c].today_date, today)
            error(stats) ==
                increment_error_count(stats, c, stats[c].today_date, today, TRUE, now)
            reset(stats) == reset_error_count(stats, c)
        IN  /\ usage(usage(tokens)) = usage(tokens)
            /\ expired(expired(tokens)) = expired(tokens)
            /\ cooldown(cooldown(tokens)) = cooldown(tokens)
            /\ image(image(token_stats)) = image(token_stats)
            /\ video(video(token_stats)) = video(token_stats)
            /\ error(error(token_stats)) = error(token_stats)
            /\ reset(reset(token_stats)) = reset(token_stats)
            /\ \A t \in TaskIds :
                  LET create(tbl) == create_task(tbl, Task(t, "gpt-image"))
                      update(tbl) == update_task(tbl, t, "completed", 100, NULL, NULL)
                  IN  /\ create(create(tasks)) = create(tasks)
                      /\ update(update(tasks)) = update(tasks)

\* C16: each store operation of the core is idempotent under retry: on the
\* store that a store call has just written, running any of the calls a
\* second time leaves the store as the first run leaves it.
C16_IdempotentUnderRetry ==
    [][token_stats' # token_stats => C16_Retry']_vars

\* C17: the candidate set is exactly the credentials that are active, out
\* of cooldown, not marked expired and not past their expiry time; it is
\* returned by last use ascending, the never used first; a credential marked
\* expired or inside its cooldown window is never in it.
Eligible(c) ==
    /\ tokens[c].is_active
    /\ ~tokens[c].is_expired
    /\ (tokens[c].cooled_until = 0 \/ tokens[c].cooled_until < now)
    /\ (tokens[c].expiry_time = 0 \/ tokens[c].expiry_time > now)

C17_CandidateSet ==
    LET active == get_active_tokens(tokens, now)
    IN  /\ active = {c \in Tokens : Eligible(c)}
        /\ \A c \in active :
              ~tokens[c].is_expired /\ ~(tokens[c].cooled_until >= now)
        /\ \A rows \in order_by_last_used_at(tokens, active) :
              \A i, j \in 1..Len(rows) :
                  (i < j /\ tokens[rows[j]].last_used_at = 0) =>
                      tokens[rows[i]].last_used_at = 0

\* The progress of the generation r: two per finished attempt, one more
\* while an attempt is running.
AttemptProgress(rec) == 2 * Len(rec.attempts) + (IF rec.pc = "attempt" THEN 1 ELSE 0)

\* No credential is attempted twice by one generation, a success or a fatal
\* failure is the last attempt and ends the generation, and a generation
\* that has ended has a result or a terminal error.
C19_Attempts ==
    \A r \in Reqs :
        LET attempts == req[r].attempts
        IN  /\ \A i, j \in DOMAIN attempts :
                  i # j => attempts[i].token # attempts[j].token
            /\ req[r].pc = "attempt" => req[r].token \notin tried(r)
            /\ \A i \in DOMAIN attempts :
                  attempts[i].outcome \in {"success", "fatal"} =>
                      i = Len(attempts) /\ req[r].pc = "done"
            /\ req[r].pc = "done" =>
                  req[r].result \in {"success", "structured_error", "error",
                                     "pool_exhausted"}
            /\ AttemptProgress(req[r]) <= 2 * Cardinality(Tokens)

\* Every step of a running generation ends it or brings it closer to its
\* end: the progress grows and is bounded by the number of credentials.
C19_Step ==
    \A r \in Reqs :
        (req[r].pc \in {"select", "attempt"} /\ req'[r] # req[r]) =>
            \/ req'[r].pc = "done"
            \/ AttemptProgress(req'[r]) > AttemptProgress(req[r])

\* C19: handle_generation ends with a result or a terminal error; after a
\* transient or rate-limited failure each remaining credential is attempted
\* at most once, and after a fatal failure there is no further attempt.
C19_BoundedFailover == []C19_Attempts /\ [][C19_Step]_vars

C19_Witness ==
    \E r \in Reqs :
        /\ req[r].pc = "done"
        /\ Len(req[r].attempts) = 2
        /\ req[r].attempts[1].outcome = "rate_limited"
        /\ req[r].attempts[2].outcome = "fatal"
        /\ req[r].result = "structured_error"

\* The answer to a submission names a task whose row exists: the status
\* query of that task is not a 404.
C18_RowExists ==
    http.kind = "task" => get_task_status(tasks, http.task_id).code # 404

\* A row appears in the step that answers its submission, with status
\* processing and progress 0; no row disappears; a caller's disconnect
\* changes no row.
C18_Step ==
    /\ \A t \in TaskIds :
          /\ t \in DOMAIN tasks => t \in DOMAIN tasks'
          /\ (t \notin DOMAIN tasks /\ t \in DOMAIN tasks') =>
                /\ tasks'[t].status = "processing" /\ tasks'[t].progress = 0
                /\ http' = task_submitted(t)
    /\ disconnected' # disconnected => tasks' = tasks

\* Every submitted task reaches a terminal status.
C18_Terminates ==
    \A t \in TaskIds :
        (t \in DOMAIN tasks) ~> (t \in DOMAIN tasks /\ tasks[t].status \in Terminal)

\* C18: an async submission has created the task row, processing with
\* progress 0, when it answers with the task id, so that no later status
\* query is a 404; the generation goes on in the background and reaches a
\* terminal status even when the caller disconnects.
C18_AsyncSubmission == []C18_RowExists /\ [][C18_Step]_vars /\ C18_Terminates

C18_Witness ==
    /\ http.kind = "task"
    /\ http.task_id \in disconnected
    /\ http.task_id \in DOMAIN tasks
    /\ tasks[http.task_id].status = "completed"
    /\ get_task_status(tasks, http.task_id).code = 200

\* The lease of a streaming call is counted while it polls and released
\* when it has ended or has been cancelled.
C20_Released ==
    \A c \in Tokens, media \in MediaTypes :
        in_flight[c][media] =
            IF sync_call.pc = "polling" /\ sync_call.token = c
               /\ sync_call.media = media
            THEN 1 ELSE 0

\* After the disconnect the backend is not polled again and the call can
\* only be cancelled; no step of a streaming call touches a task row.
C20_Step ==
    /\ (sync_call.pc = "polling" /\ ~sync_call.connected) =>
          /\ sync_call'.polls = sync_call.polls
          /\ sync_call'.pc \in {"polling", "cancelled"}
    /\ sync_call' # sync_call => tasks' = tasks

\* A disconnected streaming call is cancelled.
C20_Cancelled ==
    (sync_call.pc = "polling" /\ ~sync_call.connected) ~> (sync_call.pc = "cancelled")

IsDataUri(s) ==
    /\ s[1] \in {"data:image", "data:video", "data:application"}
    /\ \E i \in 1..Len(s) : s[i] = "base64,"

Payload(s) ==
    LET first == CHOOSE i \in 1..Len(s) :
                     s[i] = "base64," /\ \A j \in 1..(i - 1) : s[j] # "base64,"
    IN  [k \in 1..(Len(s) - first) |-> s[first + k]]

Normalized(s) == IF IsDataUri(s) THEN Payload(s) ELSE s

\* The media input of one kind a chat request carries: the url of its last
\* part of that type, else the field of the request.
MediaInput(request, type, field) ==
    LET items == request.content.items
        parts == {i \in 1..Len(items) : items[i].type = type}
    IN  IF parts # {}
        THEN items[CHOOSE i \in parts : \A j \in parts : j <= i].url
        ELSE field

\* C21: every media input reaches the handler normalized: a data-URI as the
\* payload after its first "base64,", an http(s) URL unchanged, never dropped
\* and never replaced by another value.
C21_MediaNormalized ==
    /\ chat.pc = "handler" =>
          LET image == MediaInput(chat.request, "image_url", chat.request.image)
              video == MediaInput(chat.request, "video_url", chat.request.video)
          IN  /\ chat.image = (IF image = NULL THEN NULL ELSE Normalized(image))
              /\ chat.video = (IF video = NULL THEN NULL ELSE Normalized(video))
    /\ \A image \in ImageUrls \cup {RawBase64} :
          transform_image_data(image) = Normalized(image)
    /\ \A video \in VideoUrls \cup {RawBase64} :
          character_video_data(video) = Normalized(video)

\* C22: a task row is never deleted: once create_task has written the row,
\* get_task finds it after every later operation on tasks, credentials
\* (delete_token included), statistics and configuration.
C22_TaskNeverDeleted ==
    [][\A t \in TaskIds : get_task(tasks, t) # {} => get_task(tasks', t) # {}]_vars

C22_Witness ==
    /\ tokens = << >>
    /\ token_seq = Cardinality(Tokens)
    /\ \A t \in TaskIds : get_task(tasks, t) # {}
    /\ \E t \in TaskIds : tasks[t].status = "completed"

\* C28: a credential whose is_expired flag is set is not active, and so is
\* not among the rows get_active_tokens returns.
C28_ExpiredNotActive ==
    \A c \in DOMAIN tokens :
        tokens[c].is_expired =>
            /\ ~tokens[c].is_active
            /\ c \notin get_active_tokens(tokens, now)

\* C29: a request rejected by validation is answered with an HTTP 4xx
\* status, and HTTP 500 answers only a request whose validation passed.
C29_ValidationIs4xx ==
    /\ (call.pc # "idle" /\ call.validation # "valid") =>
           (http.status >= 400 /\ http.status <= 499)
    /\ http.status = 500 => call.validation = "valid"

\* C24: every task row has completed_at set exactly when its status is
\* completed or failed.
C24_CompletedAtIffTerminal ==
    \A t \in DOMAIN tasks :
        (tasks[t].completed_at # 0) <=> (tasks[t].status \in {"completed", "failed"})

\* A row that update_task brought to a terminal status next to a row that
\* update_task left in processing.
C24_Witness ==
    /\ DOMAIN tasks = TaskIds
    /\ tasks["t1"].status = "failed" /\ tasks["t1"].completed_at = now
    /\ tasks["t2"].status = "processing" /\ tasks["t2"].progress = 50
    /\ tasks["t2"].result_urls # NULL /\ tasks["t2"].completed_at = 0

\* The columns update_task does not write.
IdentityColumns(task) ==
    <<task.task_id, task.token_id, task.model, task.prompt, task.created_at>>

\* C25: in every reachable table, any update_task call stores its five
\* columns as given (an omitted argument as empty), keeps the identity
\* columns of the row and every other row, and changes nothing for an
\* unknown task_id.
C25_UpdateReplacesTogether ==
    \A t \in TaskIds, s \in TaskStatuses, p \in ProgressValues,
       r \in ResultTexts, e \in ErrorMessages :
        LET new == update_task(tasks, t, s, p, r, e)
        IN  /\ DOMAIN new = DOMAIN tasks
            /\ \A u \in DOMAIN tasks \ {t} : new[u] = tasks[u]
            /\ t \in DOMAIN tasks =>
                  /\ new[t].status = s
                  /\ new[t].progress = p
                  /\ new[t].result_urls = r
                  /\ new[t].error_message = e
                  /\ new[t].completed_at =
                         (IF s \in {"completed", "failed"} THEN now ELSE 0)
                  /\ IdentityColumns(new[t]) = IdentityColumns(tasks[t])

\* A row holding a result and an error text, so that a call omitting both
\* has something to erase, next to an id that is not in the table.
C25_Witness ==
    /\ DOMAIN tasks = {"t1"}
    /\ tasks["t1"].result_urls = "[\"u\"]"
    /\ tasks["t1"].error_message = "boom"
    /\ tasks["t1"].status = "completed"

\* The increments of one kind performed on the date the row stores.
PerformedOnRowDate(c, op) ==
    IF token_stats[c].today_date \in Dates
    THEN performed[c][op][token_stats[c].today_date]
    ELSE 0

\* C26: each today_* count of a credential equals the number of increments
\* of its own kind performed on the date stored in today_date.
C26_TodayCounts ==
    \A c \in Tokens :
        /\ token_stats[c].today_image_count = PerformedOnRowDate(c, "image")
        /\ token_stats[c].today_video_count = PerformedOnRowDate(c, "video")
        /\ token_stats[c].today_error_count = PerformedOnRowDate(c, "error")

\* Every increment call that has run its UPDATE for the credential.
Completed(c, op) ==
    LET Sum[D \in SUBSET Dates] ==
            IF D = {} THEN 0
            ELSE LET d == CHOOSE x \in D : TRUE
                 IN  performed[c][op][d] + Sum[D \ {d}]
    IN  Sum[Dates]

\* C27: after n completed increments of one kind on a credential, whatever
\* calls ran between their statements, the historical total of that kind is n.
C27_NoLostIncrement ==
    \A c \in Tokens :
        /\ token_stats[c].image_count = Completed(c, "image")
        /\ token_stats[c].video_count = Completed(c, "video")
        /\ token_stats[c].error_count = Completed(c, "error")

\* Two increments of one kind on one credential both read the row before
\* either wrote it, a reset ran, and both have written.
C27_Witness ==
    \E c \in Tokens :
        /\ Completed(c, "error") = 2
        /\ token_stats[c].error_count = 2
        /\ token_stats[c].today_error_count = 1
        /\ calls = 3
        /\ \E k \in Conns : conn[k].op = "reset" /\ conn[k].token_id = c

\* The tables _ensure_config_rows has left with a row.
Seeded(rows) == \A i \in DOMAIN ConfigTables : DOMAIN rows[i] = {1}

C23_OneRow ==
    /\ \A i \in DOMAIN ConfigTables : DOMAIN config_rows[i] \subseteq {1}
    /\ (\E s \in Seeders : seeder[s].pc = "done") => Seeded(config_rows)

C23_Step ==
    /\ \A i \in DOMAIN ConfigTables :
          1 \in DOMAIN config_rows[i] => config_rows'[i] = config_rows[i]
    /\ \A s \in Seeders, i \in DOMAIN ConfigTables :
          ( /\ seeder[s].entry = "init_config_from_toml"
            /\ ~seeder[s].is_first_startup
            /\ seeder[s].pc = "insert" /\ seeder[s].i = i
            /\ seeder'[s] # seeder[s]
            /\ config_rows[i] = << >> ) =>
              config_rows'[i] = 1 :> Defaults(ConfigTables[i])

\* C23: however many runs of _ensure_config_rows are started, one after
\* another or concurrently, no configuration table ever holds a row other
\* than id 1, every table holds that row once a run has ended, no run
\* changes a row that exists, and a run in upgrade mode
\* (init_config_from_toml with is_first_startup false) creates a missing
\* row with the built-in defaults.
C23_SeedingIdempotent == []C23_OneRow /\ [][C23_Step]_vars

\* A first-startup run and an upgrade-mode run raced to the end: the first
\* table holds the values of setting.toml, the last one the defaults.
C23_Witness ==
    /\ seeder["s1"].pc = "done" /\ seeder["s1"].entry = "init_config_from_toml"
    /\ seeder["s1"].config_dict = TomlDict
    /\ seeder["s2"].pc = "done" /\ seeder["s2"].entry = "init_config_from_toml"
    /\ ~seeder["s2"].is_first_startup
    /\ config_rows[1] = 1 :> TomlDict["admin_config"]
    /\ config_rows[5] = 1 :> <<DefaultImageTimeout, DefaultVideoTimeout>>
    /\ config_rows[6] = 1 :> <<FALSE>>

\* C30: between two close() calls at most one pool is created, and the
\* callers that were handed a pool in that interval were handed the same one.
C30_OnePool ==
    /\ created <= 1
    /\ \A a, b \in Callers :
          ( /\ getter[a].pc = "returned" /\ getter[b].pc = "returned"
            /\ getter[a].epoch = getter[b].epoch ) =>
              getter[a].result = getter[b].result

====
